---------------------------- MODULE Spec2Model ----------------------------
(***************************************************************************)
(* A model of dinghy's activity aggregation engine: the paginated network *)
(* engine (graphql_helpers.py) and the entry reconciliation and digest     *)
(* orchestration (digest.py).                                              *)
(***************************************************************************)
EXTENDS Integers, Sequences, FiniteSets, TLC

\* ------------------------------------------------------------------ bounds
MaxPages == 3
MaxPageLen == 2
MaxTime == 2

Times == 1..MaxTime
Cursors == {"c1", "c2"}
None == "None"

\* ----------------------------------------------------- timestamp strings
\* Timestamps are compared as strings.  The API's DateTime strings end in
\* "Z" (jinja_helpers.datetime_format rewrites that "Z"); Digester.since is
\* strftime("%Y-%m-%dT%H:%M:%S"), the same fixed-width digits with no "Z".
\* A string is modelled by its fixed-width part (an integer, whose order is
\* the lexicographic order of the digits) and whether a "Z" follows.
ApiTime(t) == [digits |-> t, z |-> TRUE]

Strftime(t) == [digits |-> t, z |-> FALSE]

\* Python's str < str: the first differing character decides, and a proper
\* prefix is smaller than the longer string.
StrLess(a, b) ==
    \/ a.digits < b.digits
    \/ a.digits = b.digits /\ ~a.z /\ b.z

StrGreater(a, b) == StrLess(b, a)

\* ------------------------------------------------------ sequence helpers
SeqsUpTo(S, n) == UNION {[1..k -> S] : k \in 0..n}

Last(s) == s[Len(s)]

VARIABLES
    \* the Digester's options (Digester.__init__)
    since_date,     \* the cutoff handed to Digester(since=...), in seconds
    since,          \* Digester.since: the cutoff as a string
    ignore_users,   \* Digester.ignore_users
    user_types      \* Digester.user_types

digesterVars == <<since_date, since, ignore_users, user_types>>

VARIABLES
    \* GraphqlHelper.nodes(): one call
    pcNodes,        \* "loop" | "returned" | "raised"
    donefn,         \* None | "pr" (the lambda of get_repo_pull_requests)
    clear_nodes,    \* the clear_nodes parameter
    after,          \* variables["after"], None while unset
    nodes,          \* the accumulated node list
    fetched,        \* the container found in the latest response, or None
    ret,            \* what nodes() returned: [data, nodes]
    raised,         \* the exception that left nodes(), or None
    \* history of the exchange, kept for the properties only
    nPages,         \* number of responses received
    allPages,       \* concatenation of the node lists of the pages received
    reqAfter,       \* variables["after"] carried by the latest request
    prevCursor,     \* endCursor of the page before the latest one
    stopPassed      \* some page before the latest one already met the stop rule

nodesVars == <<pcNodes, donefn, clear_nodes, after, nodes, fetched, ret, raised,
               nPages, allPages, reqAfter, prevCursor, stopPassed>>

VARIABLES
    \* _fix_ghosts, _trim_unwanted and _trim_unwanted_tree applied to a forest
    pcTrim,         \* "raw" | "fixed" | "tree" | "flat"
    forest,         \* the node list handed in (mutated in place by _fix_ghosts)
    trimmed         \* the result: [keep, any]

trimVars == <<pcTrim, forest, trimmed>>

VARIABLES
    \* _process_entries over issues and releases
    pcEntries,      \* "fetched" | "gathering" | "done" | "raised"
    entries,        \* the entries as retrieved, after _fix_ghosts
    work,           \* the entries kept by _trim_unwanted, processed in place
    taskPc,         \* per kept entry: "more" | "done" | "raised"
    taskExc,        \* per kept entry: the exception that ended its task
    moreCalls,      \* per kept entry: supplemental nodes() calls issued
    filteredOn,     \* per kept entry: the comment list the filter was run on
    filterNulls     \* ids of the nodes the filter met with a null author

issueVars == <<pcEntries, entries, work, taskPc, taskExc, moreCalls,
               filteredOn, filterNulls>>

VARIABLES
    \* _process_pull_request on one pull request
    pcPull,         \* "start" | "round1" | "round2" | "merged" | "raised"
    pull,           \* the pull request: comments, reviews, reviewThreads, children
    server,         \* the complete lists the follow-up queries answer with
    pending,        \* the get_more calls waiting for their nodes() call
    issued,         \* every supplemental nodes() call issued: [task, round]
    early,          \* a call was issued or the merge begun before its time
    children,       \* the merge map `children`, in insertion order
    pullExc         \* the exception that left _process_pull_request

pullVars == <<pcPull, pull, server, pending, issued, early, children, pullExc>>

VARIABLES
    \* make_digest
    pcDigest,       \* where make_digest stands
    items,          \* the declared sources, in the caller's order
    github,         \* Digester.github: the host of the last URL dispatched
    coros,          \* the fetch operations built so far, one per item
    closed,         \* indices of the operations closed without being started
    prepared,       \* Digester.prepare() has created the network helper
    started,        \* indices of the operations gather has started
    taskResult,     \* per started operation: its container once it returned
    fetchExc,       \* per started operation: the exception it raised, or None
    order,          \* indices of the operations in the order they completed
    results,        \* what asyncio.gather returned
    rendered,       \* the `results` argument handed to the renderer
    digestExc,      \* the exception that left make_digest
    named,          \* position of the item a build error's message names, or 0
    sinceArg,       \* the `since` argument of make_digest
    today,          \* datetime.datetime.now() when make_digest starts
    renderedSince,  \* the `since` argument handed to the renderer
    api_root,       \* the api_root option, None when not given
    endpoint        \* the endpoint of Digester.gql once prepare() has run

digestVars == <<pcDigest, items, github, coros, closed, prepared, started,
                taskResult, fetchExc,
                order, results, rendered, digestExc, named,
                sinceArg, today, renderedSince, api_root, endpoint>>

VARIABLES
    \* GraphqlHelper.execute / _raw_execute
    now,                 \* time.time(), in seconds
    rate_limit_history,  \* GraphqlHelper.rate_limit_history (class attribute)
    requests,            \* number of session.post calls made so far
    call                 \* per execute() call: its instance, position and locals

execVars == <<now, rate_limit_history, requests, call>>

VARIABLES
    \* find_dict_with_key as nodes() uses it
    pcFind,         \* where the first round of the nodes() loop stands
    response,       \* the JSON value execute() returned
    fetchedDict,    \* what find_dict_with_key returned
    findExc         \* the exception that left nodes()

findVars == <<pcFind, response, fetchedDict, findExc>>

VARIABLES
    \* build_query
    pcBuild,        \* where build_query stands
    documents,      \* per document name: the fragment names its text refers to
    composed        \* the list `query`: the documents whose text was appended

buildVars == <<pcBuild, documents, composed>>

vars == <<digesterVars, nodesVars, trimVars, issueVars, pullVars, digestVars, execVars,
          findVars, buildVars>>

\* What the operations of one component leave alone: the other components.
NodesIdle ==
    /\ pcNodes = "idle" /\ donefn = None /\ clear_nodes = TRUE /\ after = None
    /\ nodes = <<>> /\ raised = None /\ nPages = 0 /\ allPages = <<>>
    /\ reqAfter = None /\ prevCursor = None /\ stopPassed = FALSE
    /\ fetched = [nodes |-> <<>>, hasNextPage |-> FALSE, endCursor |-> None]
    /\ ret = [data |-> fetched, nodes |-> <<>>]

TrimIdle == pcTrim = "idle" /\ forest = <<>> /\ trimmed = [keep |-> <<>>, any |-> FALSE]

IssueIdle ==
    /\ pcEntries = "idle" /\ entries = <<>> /\ work = <<>> /\ taskPc = <<>>
    /\ taskExc = <<>> /\ moreCalls = <<>> /\ filteredOn = <<>> /\ filterNulls = {}

PullIdle ==
    /\ pcPull = "idle" /\ pull = <<>> /\ server = <<>> /\ pending = {}
    /\ issued = {} /\ early = FALSE /\ children = <<>> /\ pullExc = None

DigestIdle ==
    /\ pcDigest = "idle" /\ items = <<>> /\ github = "github.com" /\ coros = <<>>
    /\ closed = {} /\ prepared = FALSE /\ taskResult = <<>> /\ order = <<>>
    /\ started = {} /\ fetchExc = <<>>
    /\ results = <<>> /\ rendered = <<>> /\ digestExc = None /\ named = 0
    /\ sinceArg = [form |-> "forever", value |-> 0] /\ today = 0
    /\ renderedSince = [shown |-> FALSE, at |-> 0]
    /\ api_root = None /\ endpoint = [url |-> None, host |-> None]

ExecIdle ==
    /\ now = 0 /\ rate_limit_history = <<>> /\ requests = 0 /\ call = <<>>

NodesFrame ==
    UNCHANGED <<digesterVars, trimVars, issueVars, pullVars, digestVars, execVars,
                findVars, buildVars>>

TrimFrame ==
    UNCHANGED <<digesterVars, nodesVars, issueVars, pullVars, digestVars, execVars,
                findVars, buildVars>>

IssueFrame ==
    UNCHANGED <<digesterVars, nodesVars, trimVars, pullVars, digestVars, execVars,
                findVars, buildVars>>

PullFrame ==
    UNCHANGED <<digesterVars, nodesVars, trimVars, issueVars, digestVars, execVars,
                findVars, buildVars>>

DigestFrame ==
    UNCHANGED <<nodesVars, trimVars, issueVars, pullVars, execVars,
                findVars, buildVars>>

FindIdle ==
    /\ pcFind = "idle" /\ findExc = None
    /\ response = [key |-> "", kind |-> "none", kids |-> <<>>]
    /\ fetchedDict = [key |-> "", kind |-> "none", kids |-> <<>>]

FindFrame ==
    UNCHANGED <<digesterVars, nodesVars, trimVars, issueVars, pullVars, digestVars,
                execVars, buildVars>>

BuildIdle == pcBuild = "idle" /\ documents = <<>> /\ composed = <<>>

BuildFrame ==
    UNCHANGED <<digesterVars, nodesVars, trimVars, issueVars, pullVars, digestVars,
                execVars, findVars>>

ExecFrame ==
    UNCHANGED <<digesterVars, nodesVars, trimVars, issueVars, pullVars, digestVars,
                findVars, buildVars>>

\* ============================================================ Digester
User == "User"
Bot == "Bot"

Author(kind, login) == [typename |-> kind, login |-> login]

\* "author": null in the API's answer (a deleted account).
NullAuthor == Author(None, None)

\* Digester.__init__: the cutoff as a string, the ignore list, the permitted
\* author kinds.
UserTypes(include_bots) == IF include_bots THEN {User, Bot} ELSE {User}

NewDigester(cutoff, include_bots, ignored) ==
    /\ since_date = cutoff
    /\ since = Strftime(cutoff)
    /\ ignore_users = ignored
    /\ user_types = UserTypes(include_bots)

\* A node of the conversation tree: an entry, a comment, a review.
Node(id, t, author, kids) ==
    [id |-> id, updatedAt |-> ApiTime(t), author |-> author,
     children |-> kids, boring |-> FALSE]

\* _node_is_interesting: the three conjuncts, evaluated left to right.
NodeIsRecent(node) == StrGreater(node.updatedAt, since)

NodeIsInteresting(node) ==
    /\ NodeIsRecent(node)
    /\ node.author.typename \in user_types
    /\ node.author.login \notin ignore_users

\* node["author"]["__typename"] with author None: TypeError.  `and` stops at
\* a false updatedAt test, so only a recent node reaches the author.
NodeIsInterestingRaises(node) ==
    /\ NodeIsRecent(node)
    /\ node.author = NullAuthor

\* sorted(nodes, key=operator.itemgetter("updatedAt")): a stable sort on the
\* updatedAt strings.
RECURSIVE SortedInsert(_, _)
SortedInsert(x, t) ==
    IF t = <<>> THEN <<x>>
    ELSE IF StrLess(Head(t).updatedAt, x.updatedAt)
         THEN <<Head(t)>> \o SortedInsert(x, Tail(t))
         ELSE <<x>> \o t

RECURSIVE SortedByUpdatedAt(_)
SortedByUpdatedAtM(s) == s

SortedByUpdatedAt(s) ==
    IF s = <<>> THEN <<>> ELSE SortedInsert(Head(s), SortedByUpdatedAt(Tail(s)))

\* _trim_unwanted: the interesting nodes of a flat list (the generator
\* expression), sorted.
RECURSIVE InterestingNodes(_)
InterestingNodes(s) ==
    IF s = <<>> THEN <<>>
    ELSE (IF NodeIsInteresting(Head(s)) THEN <<Head(s)>> ELSE <<>>)
         \o InterestingNodes(Tail(s))

TrimUnwanted(ns) == SortedByUpdatedAt(InterestingNodes(ns))

TrimUnwantedRaises(ns) == \E i \in 1..Len(ns) : NodeIsInterestingRaises(ns[i])

\* _fix_ghosts: every null author becomes the ghost user, at every depth.
Ghost == Author(User, "ghost")

FixAuthor(a) == IF a = NullAuthor THEN Ghost ELSE a

RECURSIVE FixGhosts(_)
FixGhosts(ns) ==
    [i \in 1..Len(ns) |->
        [ns[i] EXCEPT !.author = FixAuthor(@), !.children = FixGhosts(@)]]

\* _trim_unwanted_tree: the loop over `nodes` (TrimLoop builds `keep` in
\* iteration order), the final sort, and any_interesting_total, which is set
\* exactly when a node is appended to `keep`.
KeepNodeM(interesting, kids_interesting) == interesting

KeepNode(interesting, kids_interesting) == interesting \/ kids_interesting

MarkBoring(node, interesting) ==
    IF interesting THEN node ELSE [node EXCEPT !.boring = TRUE]

RECURSIVE TrimLoop(_)
RECURSIVE TrimUnwantedTree(_)
TrimLoop(ns) ==
    IF ns = <<>> THEN <<>>
    ELSE LET node == Head(ns)
             any_interesting == NodeIsInteresting(node)
             sub == TrimUnwantedTree(node.children)
             marked == MarkBoring(node, any_interesting)
         IN  (IF KeepNode(any_interesting, sub.any)
                THEN <<[marked EXCEPT !.children = sub.keep]>>
                ELSE <<>>) \o TrimLoop(Tail(ns))

TrimUnwantedTree(ns) ==
    LET keep == TrimLoop(ns)
    IN  [keep |-> SortedByUpdatedAt(keep), any |-> keep # <<>>]

\* Every node of the forest is visited, so the tree form raises as soon as
\* one recent node, at any depth, has a null author.
RECURSIVE TrimUnwantedTreeRaises(_)
TrimUnwantedTreeRaises(ns) ==
    \E i \in 1..Len(ns) :
        NodeIsInterestingRaises(ns[i]) \/ TrimUnwantedTreeRaises(ns[i].children)

\* ============================================================ nodes()
\* The lambda handed to nodes() by get_repo_pull_requests:
\*     lambda nodes: nodes[-1]["updatedAt"] < self.since
\* nodes[-1] of an empty list raises IndexError.
DoneFnRaises(fn, page_nodes) == fn = "pr" /\ page_nodes = <<>>

DoneFnValue(fn, page_nodes) ==
    /\ fn = "pr"
    /\ page_nodes # <<>>
    /\ StrLess(ApiTime(Last(page_nodes)), since)

\* A response with a paginated container somewhere in it.
Page(ns, more, cursor) ==
    [nodes |-> ns, hasNextPage |-> more, endCursor |-> cursor]

\* The value of `fetched` before the first response.
NoPage == Page(<<>>, FALSE, None)

NoReturn == [data |-> NoPage, nodes |-> <<>>]

\* The stop rule as the specification words it, on one page.
StopRule(page) ==
    \/ ~page.hasNextPage
    \/ donefn # None /\ DoneFnValue(donefn, page.nodes)

NodesInit ==
    /\ \E cutoff \in Times : NewDigester(cutoff, FALSE, {})
    /\ TrimIdle /\ IssueIdle /\ PullIdle /\ DigestIdle /\ ExecIdle /\ FindIdle
    /\ BuildIdle
    /\ pcNodes = "loop"
    /\ donefn \in {None, "pr"}
    /\ clear_nodes \in BOOLEAN
    /\ after = None
    /\ nodes = <<>>
    /\ fetched = NoPage
    /\ ret = NoReturn
    /\ raised = None
    /\ nPages = 0
    /\ allPages = <<>>
    /\ reqAfter = None
    /\ prevCursor = None
    /\ stopPassed = FALSE

\* What every received response adds to the history.
Received(page) ==
    /\ nPages' = nPages + 1
    /\ allPages' = allPages \o page.nodes
    /\ reqAfter' = after
    /\ prevCursor' = fetched.endCursor
    /\ stopPassed' = (stopPassed \/ (nPages > 0 /\ StopRule(fetched)))

\* nodes.extend(fetched["nodes"])
Extend(acc, page_nodes) == acc \o page_nodes

\* The condition of the two `break`s of the loop.
BreaksM(page) == ~page.hasNextPage /\ (donefn = None \/ DoneFnValue(donefn, page.nodes))

Breaks(page) ==
    \/ ~page.hasNextPage
    \/ donefn # None /\ DoneFnValue(donefn, page.nodes)

\* variables["after"] = fetched["pageInfo"]["endCursor"]
NextAfter(page) == page.endCursor

\* The return statement, after the nodes of the returned data are cleared
\* (clear_nodes) or replaced by the whole list.
Returned(page, acc) ==
    [data |-> [page EXCEPT !.nodes = IF clear_nodes THEN <<>> ELSE acc],
     nodes |-> acc]

\* One iteration of the loop whose response holds a pageInfo container.
NodesPage ==
    /\ pcNodes = "loop"
    /\ nPages < MaxPages
    /\ \E ns \in SeqsUpTo(Times, MaxPageLen), more \in BOOLEAN, cursor \in Cursors :
         LET page == Page(ns, more, cursor)
             acc == Extend(nodes, ns)
         IN  /\ Received(page)
             /\ fetched' = page
             /\ nodes' = acc
             /\ IF page.hasNextPage /\ donefn # None /\ DoneFnRaises(donefn, ns)
                  THEN /\ pcNodes' = "raised"
                       /\ raised' = "IndexError"
                       /\ UNCHANGED <<after, ret>>
                  ELSE IF Breaks(page)
                  THEN /\ pcNodes' = "returned"
                       /\ ret' = Returned(page, acc)
                       /\ UNCHANGED <<after, raised>>
                  ELSE /\ pcNodes' = "loop"
                       /\ after' = NextAfter(page)
                       /\ UNCHANGED <<ret, raised>>
    /\ UNCHANGED <<donefn, clear_nodes>>
    /\ NodesFrame

\* find_dict_with_key(data, "pageInfo") is None: DinghyError.
NodesNoPageInfo ==
    /\ pcNodes = "loop"
    /\ nPages < MaxPages
    /\ pcNodes' = "raised"
    /\ raised' = "DinghyError"
    /\ UNCHANGED <<donefn, clear_nodes, after, nodes, fetched, ret,
                   nPages, allPages, reqAfter, prevCursor, stopPassed>>
    /\ NodesFrame

\* execute() raises: the exception leaves nodes().
NodesExecuteRaises ==
    /\ pcNodes = "loop"
    /\ nPages < MaxPages
    /\ pcNodes' = "raised"
    /\ raised' = "Exception"
    /\ UNCHANGED <<donefn, clear_nodes, after, nodes, fetched, ret,
                   nPages, allPages, reqAfter, prevCursor, stopPassed>>
    /\ NodesFrame

NodesNext == NodesPage \/ NodesNoPageInfo \/ NodesExecuteRaises

SpecNodes == NodesInit /\ [][NodesNext]_vars

\* C1: nodes() stops after exactly the first page that has no next page or on
\* which donefn is true, returns the concatenation in page order of exactly
\* the pages fetched, and every request after the first carries the previous
\* page's endCursor as variables["after"].
C1_NodesExact ==
    /\ ~stopPassed
    /\ (nPages = 1 => reqAfter = None)
    /\ (nPages > 1 => reqAfter = prevCursor)
    /\ (pcNodes = "returned" =>
          /\ StopRule(fetched)
          /\ ret.nodes = allPages)
    /\ (pcNodes = "loop" /\ nPages > 0 => ~StopRule(fetched))

C1_Witness ==
    /\ pcNodes = "returned"
    /\ nPages = 3
    /\ donefn = "pr"
    /\ fetched.hasNextPage
    /\ Len(ret.nodes) = 5

\* ================================================= pruning a forest
MaxNodes == 3

\* The forests of n nodes: node i hangs under parent[i] < i (0: top level);
\* siblings come in the order of their numbers.
Shapes(n) == {p \in [1..n -> 0..(n - 1)] : \A i \in 1..n : p[i] < i}

RECURSIVE AscendingFrom(_, _)
AscendingFrom(S, lo) ==
    IF \A x \in S : x < lo THEN <<>>
    ELSE LET m == CHOOSE x \in S : x >= lo /\ \A y \in S : y >= lo => x <= y
         IN  <<m>> \o AscendingFrom(S, m + 1)

RECURSIVE BuildForest(_, _, _)
BuildForest(parent, attr, top) ==
    LET kids == AscendingFrom({i \in DOMAIN parent : parent[i] = top}, 1)
    IN  [k \in 1..Len(kids) |->
            Node(kids[k], attr[kids[k]].t, attr[kids[k]].author,
                 BuildForest(parent, attr, kids[k]))]

Alice == Author(User, "alice")
Robo == Author(Bot, "robo")

\* Authors as the API answers them, and the narrower choice used for the
\* nodes of forests of several nodes.
RawAuthors == {Alice, Robo, Author(User, "ghost"), NullAuthor}
TreeAuthors == {Alice, Robo}

Attrs(authors) == [t : Times, author : authors]

\* Forests of up to MaxNodes nodes under a cutoff, or one node under every
\* combination of options.
TrimInit ==
    /\ NodesIdle /\ IssueIdle /\ PullIdle /\ DigestIdle /\ ExecIdle /\ FindIdle
    /\ BuildIdle
    /\ pcTrim = "raw"
    /\ trimmed = [keep |-> <<>>, any |-> FALSE]
    /\ \/ /\ \E cutoff \in Times : NewDigester(cutoff, FALSE, {})
          /\ \E n \in 0..MaxNodes : \E parent \in Shapes(n) :
               \E attr \in [1..n -> Attrs(TreeAuthors)] :
                 forest = BuildForest(parent, attr, 0)
       \/ /\ \E cutoff \in Times, bots \in BOOLEAN,
                ignored \in SUBSET {"alice", "ghost"} :
                 NewDigester(cutoff, bots, ignored)
          /\ \E attr \in [1..1 -> Attrs(RawAuthors)] :
               forest = BuildForest(<<0>>, attr, 0)

\* _process_entries: self._fix_ghosts(entries)
TrimFixGhosts ==
    /\ pcTrim = "raw"
    /\ pcTrim' = "fixed"
    /\ forest' = FixGhosts(forest)
    /\ UNCHANGED trimmed
    /\ TrimFrame

\* self._trim_unwanted_tree(nodes)
TrimTree ==
    /\ pcTrim = "fixed"
    /\ pcTrim' = "tree"
    /\ trimmed' = TrimUnwantedTree(forest)
    /\ UNCHANGED forest
    /\ TrimFrame

\* self._trim_unwanted(nodes)
TrimFlat ==
    /\ pcTrim = "fixed"
    /\ pcTrim' = "flat"
    /\ trimmed' = [keep |-> TrimUnwanted(forest), any |-> TRUE]
    /\ UNCHANGED forest
    /\ TrimFrame

TrimNext == TrimFixGhosts \/ TrimTree \/ TrimFlat

SpecTrim == TrimInit /\ [][TrimNext]_vars

\* The nodes of a forest at every depth, and those below one node.
RECURSIVE AllNodes(_)
AllNodes(ns) ==
    UNION {{ns[i]} \cup AllNodes(ns[i].children) : i \in 1..Len(ns)}

Ids(ns) == {n.id : n \in AllNodes(ns)}

\* C5: after recursive pruning a node is in the output iff it or one of its
\* descendants is interesting, and a retained node is flagged boring iff it
\* is not itself interesting.
C5_PruneKeepsInterestingPaths ==
    pcTrim = "tree" =>
       /\ Ids(trimmed.keep) =
             {n.id : n \in {m \in AllNodes(forest) :
                 NodeIsInteresting(m)
                 \/ \E d \in AllNodes(m.children) : NodeIsInteresting(d)}}
       /\ \A k \in AllNodes(trimmed.keep) :
             \E n \in AllNodes(forest) :
                 /\ n.id = k.id
                 /\ k.boring = ~NodeIsInteresting(n)
       /\ Cardinality(AllNodes(trimmed.keep)) = Cardinality(Ids(trimmed.keep))

\* The three-level chain whose deepest leaf alone is interesting.
C5_Witness ==
    /\ pcTrim = "tree"
    /\ Len(forest) = 1 /\ Len(forest[1].children) = 1
    /\ Len(forest[1].children[1].children) = 1
    /\ ~NodeIsInteresting(forest[1])
    /\ ~NodeIsInteresting(forest[1].children[1])
    /\ NodeIsInteresting(forest[1].children[1].children[1])
    /\ Len(trimmed.keep) = 1 /\ trimmed.keep[1].boring
    /\ Len(trimmed.keep[1].children) = 1 /\ trimmed.keep[1].children[1].boring
    /\ Len(trimmed.keep[1].children[1].children) = 1
    /\ ~trimmed.keep[1].children[1].children[1].boring

\* No node of the sequence is updated before the one in front of it.
Ascending(ns) ==
    \A i \in 1..(Len(ns) - 1) : ~StrLess(ns[i + 1].updatedAt, ns[i].updatedAt)

C7_InterestingIffStrictlyAfter ==
    pcTrim = "flat" =>
       \A i \in 1..Len(forest) :
          (\E k \in 1..Len(trimmed.keep) : trimmed.keep[k].id = forest[i].id)
          <=> /\ forest[i].updatedAt.digits > since_date
              /\ forest[i].author.typename \in user_types
              /\ forest[i].author.login \notin ignore_users

\* ================================== _process_entries: issues, releases
MaxEntries == 2
MaxComments == 2

\* A comment Collection: the authoritative count and the nodes present.
Collection(total, ns) == [totalCount |-> total, nodes |-> ns]

\* A timestamp the API gives as null (closedAt of an open issue).
NullTime == [digits |-> 0, z |-> FALSE]

\* An issue or a release as the API returns it.
Entry(id, kind, t, author, comments) ==
    [id |-> id, typename |-> kind, updatedAt |-> ApiTime(t), author |-> author,
     comments |-> comments, children |-> <<>>, boring |-> FALSE,
     createdAt |-> ApiTime(1), closedAt |-> NullTime, mergedAt |-> NullTime,
     reasonCreated |-> FALSE, reasonClosed |-> FALSE, reasonMerged |-> FALSE]

CommentAuthors == {Alice, NullAuthor}

\* Comment i of a list: the k-th comment of entry e is e * 10 + k as present
\* in the entry, and 100 more when it comes from the supplemental fetch.
CommentLists(base, n) ==
    {[k \in 1..len |-> Node(base + k, attr[k].t, attr[k].author, <<>>)] :
        len \in {n}, attr \in [1..n -> Attrs(CommentAuthors)]}

EntryChoices(id) ==
    {Entry(id, "Release", t, a, Collection(0, <<>>)) :
        t \in Times, a \in CommentAuthors}
    \cup
    UNION {{Entry(id, "Issue", t, a, Collection(total, ns)) :
               t \in Times, a \in CommentAuthors,
               total \in n..MaxComments, ns \in CommentLists(id * 10, n)} :
           n \in 0..1}

\* _fix_ghosts over the retrieved entries: the authors of the entries and of
\* the comment nodes nested in them.
FixGhostsEntries(es) ==
    [i \in 1..Len(es) |->
        [es[i] EXCEPT !.author = FixAuthor(@),
                      !.comments.nodes = FixGhosts(@)]]

\* _add_reasons: entry.get(at) and entry[at] > self.since, for each slug.
Reason(at) == at # NullTime /\ StrGreater(at, since)

AddReasons(e) ==
    [e EXCEPT !.reasonCreated = Reason(e.createdAt),
              !.reasonClosed = Reason(e.closedAt),
              !.reasonMerged = Reason(e.mergedAt)]

\* get_more: the test that decides on the supplemental nodes() call.
ContainerIsShortM(c) == c.totalCount >= Len(c.nodes)

ContainerIsShort(c) == c.totalCount > Len(c.nodes)

\* get_more: container["nodes"] = all_nodes
WithAllNodes(c, all_nodes) == [c EXCEPT !.nodes = all_nodes]

NullAuthored(ns) == {ns[i].id : i \in {j \in 1..Len(ns) : ns[j].author = NullAuthor}}

\* _process_issue after get_more, then _add_reasons: the filter runs on the
\* comment nodes now in the container.
FinishEntry(e) ==
    IF e.typename = "Issue"
      THEN AddReasons([e EXCEPT !.children = TrimUnwanted(e.comments.nodes)])
      ELSE AddReasons(e)

FinishRaises(e) == e.typename = "Issue" /\ TrimUnwantedRaises(e.comments.nodes)

\* Whether the task of a kept entry suspends in a supplemental fetch.
Suspends(e) == e.typename = "Issue" /\ ContainerIsShort(e.comments)

IssueInit ==
    /\ NodesIdle /\ TrimIdle /\ PullIdle /\ DigestIdle /\ ExecIdle /\ FindIdle
    /\ BuildIdle
    /\ \E cutoff \in {MaxTime - 1, MaxTime}, ignored \in {{}, {"alice"}} :
          NewDigester(cutoff, FALSE, ignored)
    /\ pcEntries = "fetched"
    /\ \E n \in 1..MaxEntries : \E es \in [1..n -> UNION {EntryChoices(i) : i \in 1..n}] :
          /\ \A i \in 1..n : es[i].id = i
          /\ entries = es
    /\ work = <<>> /\ taskPc = <<>> /\ taskExc = <<>> /\ moreCalls = <<>>
    /\ filteredOn = <<>> /\ filterNulls = {}

\* The outcome of the gather once no task is suspended: the first exception
\* raised by a task leaves _process_entries, otherwise the entries do.
Gathered(pcs) ==
    IF \E i \in 1..Len(pcs) : pcs[i] = "raised" THEN "raised"
    ELSE IF \A i \in 1..Len(pcs) : pcs[i] = "done" THEN "done"
    ELSE "gathering"

\* _process_entries up to the first suspension: _fix_ghosts, _trim_unwanted,
\* then every task runs until it waits for a supplemental fetch or ends.
ProcessEntries ==
    /\ pcEntries = "fetched"
    /\ LET fixed == FixGhostsEntries(entries)
           kept == TrimUnwanted(fixed)
           n == Len(kept)
           pcs == [i \in 1..n |->
                      IF Suspends(kept[i]) THEN "more"
                      ELSE IF FinishRaises(kept[i]) THEN "raised" ELSE "done"]
       IN  /\ entries' = fixed
           /\ work' = [i \in 1..n |->
                          IF pcs[i] = "done" THEN FinishEntry(kept[i]) ELSE kept[i]]
           /\ taskPc' = pcs
           /\ taskExc' = [i \in 1..n |-> IF pcs[i] = "raised" THEN "TypeError" ELSE None]
           /\ moreCalls' = [i \in 1..n |-> IF pcs[i] = "more" THEN 1 ELSE 0]
           /\ filteredOn' = [i \in 1..n |->
                                IF pcs[i] # "more" /\ kept[i].typename = "Issue"
                                  THEN kept[i].comments.nodes ELSE <<>>]
           /\ filterNulls' = NullAuthored(fixed) \cup
                  UNION {NullAuthored(kept[i].comments.nodes) :
                           i \in {j \in 1..n : pcs[j] # "more"
                                                /\ kept[j].typename = "Issue"}}
           /\ pcEntries' = Gathered(pcs)
    /\ IssueFrame

\* The supplemental nodes() call of one issue returns: the collection takes
\* the fetched list, the filter runs on it, the reasons are added.
MoreReturns(i) ==
    /\ pcEntries \in {"gathering", "raised"}
    /\ i \in 1..Len(work) /\ taskPc[i] = "more"
    /\ \E n \in 0..MaxComments : \E all_nodes \in CommentLists(work[i].id * 10 + 100, n) :
         LET e == [work[i] EXCEPT !.comments = WithAllNodes(@, all_nodes)]
             pcs == [taskPc EXCEPT ![i] = IF FinishRaises(e) THEN "raised" ELSE "done"]
         IN  /\ work' = [work EXCEPT ![i] = IF FinishRaises(e) THEN e ELSE FinishEntry(e)]
             /\ taskPc' = pcs
             /\ taskExc' = [taskExc EXCEPT ![i] = IF FinishRaises(e) THEN "TypeError" ELSE None]
             /\ filteredOn' = [filteredOn EXCEPT ![i] = e.comments.nodes]
             /\ filterNulls' = filterNulls \cup NullAuthored(e.comments.nodes)
             /\ pcEntries' = IF pcEntries = "raised" THEN "raised" ELSE Gathered(pcs)
    /\ UNCHANGED <<entries, moreCalls>>
    /\ IssueFrame

\* The supplemental nodes() call raises: the exception ends the task.
MoreRaises(i) ==
    /\ pcEntries \in {"gathering", "raised"}
    /\ i \in 1..Len(work) /\ taskPc[i] = "more"
    /\ taskPc' = [taskPc EXCEPT ![i] = "raised"]
    /\ taskExc' = [taskExc EXCEPT ![i] = "DinghyError"]
    /\ pcEntries' = "raised"
    /\ UNCHANGED <<entries, work, moreCalls, filteredOn, filterNulls>>
    /\ IssueFrame

IssueNext ==
    \/ ProcessEntries
    \/ \E i \in 1..MaxEntries : MoreReturns(i)
    \/ \E i \in 1..MaxEntries : MoreRaises(i)

SpecIssue == IssueInit /\ [][IssueNext]_vars

\* The entry as retrieved from which a kept entry was made.
Retrieved(e) == CHOOSE r \in {entries[i] : i \in 1..Len(entries)} : r.id = e.id

\* C6: whenever the interest filter is evaluated on a node, the node's
\* author is non-null, also for the nodes of a supplemental fetch, so the
\* filter never fails on a deleted-account author.
C6_GhostsFixedBeforeFilter ==
    /\ filterNulls = {}
    /\ \A i \in 1..Len(taskExc) : taskExc[i] # "TypeError"

\* C8: an issue whose comment collection has totalCount above the number of
\* nodes present gets exactly one supplemental nodes() call, finished before
\* the filter runs, whose list replaces the collection's nodes; otherwise no
\* supplemental call is made.
C8_OneSupplementalFetch ==
    \A i \in 1..Len(work) :
       LET e == work[i]
           r == Retrieved(e)
           short == r.comments.totalCount > Len(r.comments.nodes)
       IN  e.typename = "Issue" =>
             /\ moreCalls[i] = (IF short THEN 1 ELSE 0)
             /\ (taskPc[i] = "more" => filteredOn[i] = <<>> /\ e.children = <<>>)
             /\ (taskPc[i] = "done" =>
                   /\ filteredOn[i] = e.comments.nodes
                   /\ e.children = TrimUnwanted(e.comments.nodes)
                   /\ (short => \A k \in 1..Len(e.comments.nodes) :
                                   e.comments.nodes[k].id > 100)
                   /\ (~short => e.comments = r.comments))

C8_Witness ==
    \E i \in 1..Len(work) :
       /\ work[i].typename = "Issue" /\ taskPc[i] = "done" /\ moreCalls[i] = 1
       /\ Len(Retrieved(work[i]).comments.nodes) = 1
       /\ Len(work[i].comments.nodes) = 2
       /\ Len(work[i].children) = 1

\* The interest predicate as specified: updated strictly after the cutoff,
\* by an author of a permitted kind who is not on the ignore list.
Interesting(node) ==
    /\ node.updatedAt.digits > since_date
    /\ node.author.typename \in user_types
    /\ node.author.login \notin ignore_users

\* C21: retention holds at the top level too: a retrieved issue that has an
\* interesting comment appears in the entries _process_entries returns,
\* whether or not the issue itself is interesting.
C21_TopLevelRetention ==
    pcEntries = "done" =>
       \A i \in 1..Len(entries) :
          (\E k \in 1..Len(entries[i].comments.nodes) :
              Interesting(entries[i].comments.nodes[k]))
          => \E j \in 1..Len(work) : work[j].id = entries[i].id

\* ================================================ _process_pull_request
MaxReviews == 2
MaxThreads == 2
MaxThreadLen == 2
MaxStandalone == 1

Commented == "COMMENTED"
Approved == "APPROVED"

\* A comment or a review of a pull request.  Reviews carry state, bodyText
\* and their own comment Collection; review-thread comments carry the id of
\* their review (pullRequestReview.id); review_state and isResolved are the
\* keys the merge adds (None while absent).
PullNode(id, t, state, body, rev, comments) ==
    [id |-> id, updatedAt |-> ApiTime(t), author |-> Alice,
     children |-> <<>>, boring |-> FALSE,
     state |-> state, bodyText |-> body, pullRequestReview |-> rev,
     comments |-> comments, review_state |-> None, isResolved |-> None]

\* Node ids: reviews 1, 2, ...; comment n of thread j is 10 j + n; threads
\* are 50 + j; a standalone comment is 90 + n unless the API repeats the id
\* of a review-thread comment for it.
ThreadCommentId(j, n) == 10 * j + n

StandaloneIds(n) == {90 + n, ThreadCommentId(1, 1), ThreadCommentId(1, 2)}

Prefix(seq, n) == SubSeq(seq, 1, n)

\* The comment list of a review: only its length is ever used.
ReviewComments(i, total) == [n \in 1..total |-> 200 + 10 * i + n]

ServerReview(i, a) ==
    PullNode(i, a.t, a.state, a.body, 0,
             Collection(a.total, Prefix(ReviewComments(i, a.total), a.present)))

ThreadComments(j, a) ==
    [n \in 1..a.total |->
        PullNode(ThreadCommentId(j, n), IF n = 1 THEN a.t ELSE MaxTime,
                 None, "", a.rev, Collection(0, <<>>))]

ServerThread(j, a) ==
    [id |-> 50 + j,
     isResolved |-> IF j % 2 = 1 THEN "True" ELSE "False",
     comments |-> Collection(a.total, Prefix(ThreadComments(j, a), a.present))]

ServerComment(n, a) == PullNode(a.id, a.t, None, "", 0, Collection(0, <<>>))

\* What the follow-up queries answer: the complete lists.  The reviews and
\* threads in them carry the nested comments the API nests, possibly short.
Server(revs, thrs, coms) ==
    [reviews |-> [i \in 1..Len(revs) |-> ServerReview(i, revs[i])],
     threads |-> [j \in 1..Len(thrs) |-> ServerThread(j, thrs[j])],
     threadComments |-> [j \in 1..Len(thrs) |-> ThreadComments(j, thrs[j])],
     comments |-> [n \in 1..Len(coms) |-> ServerComment(n, coms[n])]]

\* The pull request as the entries query returned it: each collection with
\* its totalCount and a prefix of its nodes.
PullRequest(srv, p_c, p_r, p_t) ==
    [id |-> 0,
     comments |-> Collection(Len(srv.comments), Prefix(srv.comments, p_c)),
     reviews |-> Collection(Len(srv.reviews), Prefix(srv.reviews, p_r)),
     reviewThreads |-> Collection(Len(srv.threads), Prefix(srv.threads, p_t)),
     children |-> <<>>]

PullInitWith(revs, thrs, coms, p_c, p_r, p_t) ==
    /\ server = Server(revs, thrs, coms)
    /\ pull = PullRequest(Server(revs, thrs, coms), p_c, p_r, p_t)

\* Either every collection arrives complete and the reviews, threads and
\* comments vary, or the content is fixed and what arrives short varies.
PullInit ==
    /\ NodesIdle /\ TrimIdle /\ IssueIdle /\ DigestIdle /\ ExecIdle /\ FindIdle
    /\ BuildIdle
    /\ NewDigester(MaxTime, FALSE, {})
    /\ pcPull = "start" /\ pending = {} /\ issued = {} /\ early = FALSE
    /\ children = <<>> /\ pullExc = None
    /\ \E k \in 0..MaxReviews, m \in 0..MaxThreads, c \in 0..MaxStandalone :
        /\ k = 0 => m = 0
        /\ \/ \E revs \in [1..k -> [state : {Commented, Approved}, body : {"", "text"},
                                      t : {1, MaxTime}, total : {0}, present : {0}]],
                  thrs \in [1..m -> [total : 1..MaxThreadLen, present : 1..MaxThreadLen,
                                      rev : 1..k, t : Times]],
                  coms \in [1..c -> [id : UNION {StandaloneIds(n) : n \in 1..c}, t : Times]] :
                 /\ \A i \in 1..k : revs[i].t = (IF i % 2 = 1 THEN MaxTime ELSE 1)
                 /\ \A j \in 1..m : thrs[j].present = thrs[j].total
                 /\ \A n \in 1..c : coms[n].id \in StandaloneIds(n)
                 /\ PullInitWith(revs, thrs, coms, c, k, m)
           \/ \E revs \in [1..k -> [state : {Commented}, body : {"text"},
                                      t : {MaxTime}, total : {0, 1}, present : {0}]],
                  thrs \in [1..m -> [total : 1..MaxThreadLen, present : 0..MaxThreadLen,
                                      rev : {1}, t : {MaxTime}]],
                  coms \in [1..c -> [id : {90 + n : n \in 1..c}, t : {MaxTime}]],
                  p_c \in 0..c, p_r \in 0..k, p_t \in 0..m :
                 /\ \A j \in 1..m : thrs[j].present <= thrs[j].total
                 /\ \A n \in 1..c : coms[n].id = 90 + n
                 /\ PullInitWith(revs, thrs, coms, p_c, p_r, p_t)

\* ------------------------------------------------ the follow-up fetches
Task(kind, i) == [kind |-> kind, index |-> i]

\* The container a get_more call looks at.
ContainerOf(pr, task) ==
    CASE task.kind = "comments" -> pr.comments
      [] task.kind = "reviews" -> pr.reviews
      [] task.kind = "reviewThreads" -> pr.reviewThreads
      [] task.kind = "review" -> pr.reviews.nodes[task.index].comments
      [] task.kind = "thread" -> pr.reviewThreads.nodes[task.index].comments

\* The get_more calls of the first gather that reach their nodes() call.
Round1Tasks(pr) ==
    {task \in {Task("comments", 0), Task("reviews", 0), Task("reviewThreads", 0)} :
        ContainerIsShort(ContainerOf(pr, task))}

\* The get_more calls of the second gather: one per review and per thread
\* of the lists as they are when the generator expressions run.
Round2Tasks(pr) ==
    {Task("review", i) : i \in {x \in 1..Len(pr.reviews.nodes) :
                                  ContainerIsShort(pr.reviews.nodes[x].comments)}}
    \cup {Task("thread", j) : j \in {x \in 1..Len(pr.reviewThreads.nodes) :
                                  ContainerIsShort(pr.reviewThreads.nodes[x].comments)}}

\* `await asyncio.gather(...)` returns when every awaitable has.
AllReturnedM(waiting) == TRUE

AllReturned(waiting) == waiting = {}

\* get_more: container["nodes"] = all_nodes, for the container of a task.
Filled(pr, task) ==
    CASE task.kind = "comments" ->
           [pr EXCEPT !.comments = WithAllNodes(@, server.comments)]
      [] task.kind = "reviews" ->
           [pr EXCEPT !.reviews = WithAllNodes(@, server.reviews)]
      [] task.kind = "reviewThreads" ->
           [pr EXCEPT !.reviewThreads = WithAllNodes(@, server.threads)]
      [] task.kind = "review" ->
           [pr EXCEPT !.reviews.nodes[task.index].comments =
               WithAllNodes(@, ReviewComments(task.index, @.totalCount))]
      [] task.kind = "thread" ->
           [pr EXCEPT !.reviewThreads.nodes[task.index].comments =
               WithAllNodes(@, server.threadComments[task.index])]

\* ------------------------------------------------------------ the merge
\* A dict in insertion order: a sequence of [key, value].
HasKey(d, k) == \E i \in 1..Len(d) : d[i].key = k

Get(d, k) == d[CHOOSE i \in 1..Len(d) : d[i].key = k].value

Put(d, k, v) ==
    IF HasKey(d, k)
      THEN [i \in 1..Len(d) |-> IF d[i].key = k THEN [key |-> k, value |-> v] ELSE d[i]]
      ELSE Append(d, [key |-> k, value |-> v])

SetDefault(d, k, v) == IF HasKey(d, k) THEN d ELSE Append(d, [key |-> k, value |-> v])

Values(d) == [i \in 1..Len(d) |-> d[i].value]

\* "Make a map of the reviews": review_state is set on each review.
RECURSIVE ReviewsMap(_, _)
ReviewsMap(d, revs) ==
    IF revs = <<>> THEN d
    ELSE ReviewsMap(Put(d, Head(revs).id, [Head(revs) EXCEPT !.review_state = Head(revs).state]),
                    Tail(revs))

\* The first comment of a thread, carrying the rest and the thread's flag.
RepresentativeM(thread) ==
    [thread.comments.nodes[1] EXCEPT !.children = thread.comments.nodes,
                                     !.isResolved = thread.isResolved]

Representative(thread) ==
    [thread.comments.nodes[1] EXCEPT !.children = Tail(thread.comments.nodes),
                                     !.isResolved = thread.isResolved]

\* "attach the thread as a child of the review" of its first comment.
RECURSIVE AttachThreads(_, _)
AttachThreads(reviews, threads) ==
    IF threads = <<>> THEN reviews
    ELSE LET com0 == Representative(Head(threads))
             rev_id == com0.pullRequestReview
         IN  AttachThreads(
                 Put(reviews, rev_id,
                     [Get(reviews, rev_id) EXCEPT !.children = Append(@, com0)]),
                 Tail(threads))

\* thread["comments"]["nodes"][0] of an empty list (IndexError), or
\* reviews[rev_id] of an unknown review (KeyError).
AttachRaises(reviews, threads) ==
    \E j \in 1..Len(threads) :
        \/ threads[j].comments.nodes = <<>>
        \/ ~HasKey(reviews, threads[j].comments.nodes[1].pullRequestReview)

\* "show it if it has a body, or if it has children, or if it's not just
\* COMMENTED".
ShowsM(rev) == rev.bodyText # "" \/ rev.children # <<>>

Shows(rev) == rev.bodyText # "" \/ rev.children # <<>> \/ rev.state # Commented

\* "A review with just one comment and no body".
CollapsesM(rev) == FALSE

Collapses(rev) == rev.bodyText = "" /\ Len(rev.children) = 1

\* The loop over reviews.values() that fills the merge map.
RECURSIVE ShowReviews(_, _)
ShowReviews(d, revs) ==
    IF revs = <<>> THEN d
    ELSE LET rev == Head(revs)
             d1 == SetDefault(d, rev.id, rev)
             d2 == Put(d1, rev.id, [Get(d1, rev.id) EXCEPT !.review_state = rev.state])
             d3 == IF Collapses(rev)
                     THEN Put(d2, rev.id,
                              [rev.children[1] EXCEPT !.review_state = rev.review_state])
                     ELSE d2
         IN  ShowReviews(IF Shows(rev) THEN d3 ELSE d, Tail(revs))

\* "Comments are simple: they all get shown."
RECURSIVE PutComments(_, _)
PutComments(d, coms) ==
    IF coms = <<>> THEN d
    ELSE PutComments(Put(d, Head(coms).id, Head(coms)), Tail(coms))

\* The merge map of a pull request whose collections are as they are.
Reviews(pr) == AttachThreads(ReviewsMap(<<>>, pr.reviews.nodes), pr.reviewThreads.nodes)

MergeMap(pr) == PutComments(ShowReviews(<<>>, Values(Reviews(pr))), pr.comments.nodes)

MergeRaises(pr) ==
    \/ AttachRaises(ReviewsMap(<<>>, pr.reviews.nodes), pr.reviewThreads.nodes)
    \/ TrimUnwantedTreeRaises(Values(MergeMap(pr)))

\* ---------------------------------------------------------- the steps
\* The first gather starts: the three get_more calls run up to their
\* nodes() call, or return at once when the container is full.
PullStart ==
    /\ pcPull = "start"
    /\ pcPull' = "round1"
    /\ pending' = Round1Tasks(pull)
    /\ issued' = {[task |-> task, round |-> 1] : task \in Round1Tasks(pull)}
    /\ UNCHANGED <<pull, server, early, children, pullExc>>
    /\ PullFrame

\* A supplemental nodes() call returns and get_more stores its list.
PullFetchReturns(task) ==
    /\ task \in pending
    /\ pending' = pending \ {task}
    /\ pull' = Filled(pull, task)
    /\ UNCHANGED <<pcPull, server, issued, early, children, pullExc>>
    /\ PullFrame

\* A supplemental nodes() call raises: the gather raises at once, the
\* other calls go on.
PullFetchRaises(task) ==
    /\ task \in pending
    /\ pcPull \in {"round1", "round2"}
    /\ pending' = pending \ {task}
    /\ pcPull' = "raised"
    /\ pullExc' = "DinghyError"
    /\ UNCHANGED <<pull, server, issued, early, children>>
    /\ PullFrame

\* The first gather has returned: the second is built from the reviews and
\* threads now in the pull request, and started.
PullRound2 ==
    /\ pcPull = "round1"
    /\ AllReturned(pending)
    /\ pcPull' = "round2"
    /\ pending' = pending \cup Round2Tasks(pull)
    /\ issued' = issued \cup {[task |-> task, round |-> 2] : task \in Round2Tasks(pull)}
    /\ early' = (early \/ pending # {})
    /\ UNCHANGED <<pull, server, children, pullExc>>
    /\ PullFrame

\* The second gather has returned: the merge, then the pruning.
PullMerge ==
    /\ pcPull = "round2"
    /\ AllReturned(pending)
    /\ early' = (early \/ pending # {})
    /\ IF MergeRaises(pull)
         THEN /\ pcPull' = "raised"
              /\ pullExc' = "Exception"
              /\ UNCHANGED <<pull, children>>
         ELSE /\ pcPull' = "merged"
              /\ children' = MergeMap(pull)
              /\ pull' = [pull EXCEPT !.children =
                              TrimUnwantedTree(Values(MergeMap(pull))).keep]
              /\ UNCHANGED pullExc
    /\ UNCHANGED <<server, pending, issued>>
    /\ PullFrame

AllTasks ==
    {Task("comments", 0), Task("reviews", 0), Task("reviewThreads", 0)}
    \cup {Task("review", i) : i \in 1..MaxReviews}
    \cup {Task("thread", j) : j \in 1..MaxThreads}

PullNext ==
    \/ PullStart
    \/ \E task \in AllTasks : PullFetchReturns(task)
    \/ \E task \in AllTasks : PullFetchRaises(task)
    \/ PullRound2
    \/ PullMerge

SpecPull == PullInit /\ [][PullNext]_vars

\* C3: no two entries of the merge map carry the same node id; a comment id
\* that occurs both as a review-thread comment and as a standalone comment
\* is the id of exactly one entry.
C3_MergeMapIdsUnique ==
    pcPull = "merged" =>
       \A i, j \in 1..Len(children) :
          i # j => children[i].value.id # children[j].value.id

\* The threads whose first comment belongs to review r.
ThreadsOf(r) ==
    {j \in 1..Len(server.threads) : server.threadComments[j][1].pullRequestReview = r.id}

\* C4: a review with empty body, exactly one attached thread representative
\* and state COMMENTED contributes exactly one entry to the merge map, the
\* attached comment tagged with the review's state, and no entry for the
\* review itself.
C4_CollapsedReview ==
    pcPull = "merged" =>
       \A x \in 1..Len(server.reviews) :
          LET r == server.reviews[x]
          IN  (r.bodyText = "" /\ r.state = Commented /\ Cardinality(ThreadsOf(r)) = 1) =>
                LET j == CHOOSE y \in ThreadsOf(r) : TRUE
                    at == {i \in 1..Len(children) : children[i].key = r.id}
                IN  /\ Cardinality(at) = 1
                    /\ \A i \in at :
                          /\ children[i].value.id = ThreadCommentId(j, 1)
                          /\ children[i].value.review_state = r.state
                          /\ children[i].value.isResolved = server.threads[j].isResolved
                          /\ children[i].value.children = Tail(server.threadComments[j])
                    /\ \A i \in 1..Len(children) : children[i].value.id # r.id

C4_Witness ==
    /\ pcPull = "merged"
    /\ Len(server.reviews) = 2 /\ Len(server.threads) = 2
    /\ server.reviews[2].bodyText = "" /\ server.reviews[2].state = Commented
    /\ ThreadsOf(server.reviews[2]) = {1}
    /\ ThreadsOf(server.reviews[1]) = {2}
    /\ server.reviews[1].bodyText = "text"
    /\ Len(server.threadComments[1]) = 2
    /\ Len(children) = 2
    /\ children[2].key = 2 /\ children[2].value.id = ThreadCommentId(1, 1)

\* C9: no second-round fetch is issued before every first-round fetch has
\* returned, the second round covers every review and thread of the
\* completed lists, and the merge begins only after every fetch of both
\* rounds has returned, on completely paginated data.
C9_RoundsBeforeMerge ==
    /\ ~early
    /\ (\E e \in issued : e.round = 2) =>
          \A e \in issued : e.round = 1 => e.task \notin pending
    /\ pcPull \in {"round2", "merged"} =>
          {e.task : e \in {x \in issued : x.round = 2}} =
             {Task("review", i) : i \in {x \in 1..Len(server.reviews) :
                 server.reviews[x].comments.totalCount
                    > Len(server.reviews[x].comments.nodes)}}
             \cup {Task("thread", j) : j \in {x \in 1..Len(server.threads) :
                 server.threads[x].comments.totalCount
                    > Len(server.threads[x].comments.nodes)}}
    /\ pcPull = "merged" =>
          /\ pending = {}
          /\ pull.comments.nodes = server.comments
          /\ Len(pull.reviews.nodes) = Len(server.reviews)
          /\ \A i \in 1..Len(pull.reviews.nodes) :
                Len(pull.reviews.nodes[i].comments.nodes)
                   = pull.reviews.nodes[i].comments.totalCount
          /\ Len(pull.reviewThreads.nodes) = Len(server.threads)
          /\ \A j \in 1..Len(pull.reviewThreads.nodes) :
                pull.reviewThreads.nodes[j].comments.nodes = server.threadComments[j]

C9_Witness ==
    /\ pcPull = "merged"
    /\ [task |-> Task("reviews", 0), round |-> 1] \in issued
    /\ [task |-> Task("reviewThreads", 0), round |-> 1] \in issued
    /\ [task |-> Task("review", 2), round |-> 2] \in issued
    /\ [task |-> Task("thread", 2), round |-> 2] \in issued

\* The merge-map entries stored under the id of review r.
EntriesOf(r) == {i \in 1..Len(children) : children[i].key = r.id}

\* C24: a review has an entry in the merge map, itself or its collapsed
\* child, iff it has a body, or a thread representative attached, or a state
\* other than COMMENTED; the entry is tagged with the review's state.
C24_ReviewVisibility ==
    pcPull = "merged" =>
       \A x \in 1..Len(server.reviews) :
          LET r == server.reviews[x]
          IN  /\ EntriesOf(r) # {} <=>
                    (r.bodyText # "" \/ ThreadsOf(r) # {} \/ r.state # Commented)
              /\ Cardinality(EntriesOf(r)) <= 1
              /\ \A i \in EntriesOf(r) :
                    /\ children[i].value.review_state = r.state
                    /\ \/ children[i].value.id = r.id
                       \/ \E j \in ThreadsOf(r) :
                             children[i].value.id = ThreadCommentId(j, 1)
              /\ \A i \in 1..Len(children) :
                    children[i].value.id = r.id => i \in EntriesOf(r)

C24_Witness ==
    /\ pcPull = "merged"
    /\ Len(server.reviews) = 2 /\ Len(server.threads) = 0
    /\ server.reviews[1].bodyText = "" /\ server.reviews[1].state = Approved
    /\ server.reviews[2].bodyText = "" /\ server.reviews[2].state = Commented
    /\ Len(children) = 1
    /\ children[1].value.id = 1 /\ children[1].value.review_state = Approved

\* C25: a review with no body, exactly one attached thread representative
\* and a state other than COMMENTED stays in the merge map as the review
\* itself, with the representative nested under it.
C25_CollapseOnlyCommented ==
    pcPull = "merged" =>
       \A x \in 1..Len(server.reviews) :
          LET r == server.reviews[x]
          IN  (r.bodyText = "" /\ r.state # Commented /\ Cardinality(ThreadsOf(r)) = 1) =>
                \A i \in EntriesOf(r) :
                   /\ children[i].value.id = r.id
                   /\ Len(children[i].value.children) = 1

\* How often a review-thread comment with this id occurs in a forest.
RECURSIVE CountIn(_, _)
CountIn(ns, id) ==
    IF ns = <<>> THEN 0
    ELSE (IF Head(ns).id = id /\ Head(ns).pullRequestReview # 0 THEN 1 ELSE 0)
         + CountIn(Head(ns).children, id) + CountIn(Tail(ns), id)

\* C26: before pruning, the first comment of every thread carries the
\* thread's other comments in order and its isResolved flag and is attached
\* once, under the review its pullRequestReview names (or stands in that
\* review's place when the review is collapsed); every comment of every
\* thread occurs exactly once in the forest of the merge map, and never
\* under another review.
C26_ThreadAttachment ==
    pcPull = "merged" =>
       \A j \in 1..Len(server.threads) :
          LET coms == server.threadComments[j]
              r == server.reviews[coms[1].pullRequestReview]
              com0 == [coms[1] EXCEPT !.children = Tail(coms),
                                      !.isResolved = server.threads[j].isResolved]
              nested == {i \in EntriesOf(r) :
                           /\ children[i].value.id = r.id
                           /\ \E k \in 1..Len(children[i].value.children) :
                                 children[i].value.children[k] = com0}
              inPlace == {i \in EntriesOf(r) :
                           [children[i].value EXCEPT !.review_state = None] = com0}
          IN  /\ Cardinality(nested \cup inPlace) = 1
              /\ \A n \in 1..Len(coms) :
                    /\ CountIn(Values(children), coms[n].id) = 1
                    /\ \A i \in 1..Len(children) :
                          i \notin EntriesOf(r) =>
                             CountIn(<<children[i].value>>, coms[n].id) = 0

C26_Witness ==
    /\ pcPull = "merged"
    /\ Len(server.reviews) = 2 /\ Len(server.threads) = 2
    /\ ThreadsOf(server.reviews[1]) = {1, 2}
    /\ Len(server.threadComments[1]) = 2 /\ Len(server.threadComments[2]) = 2
    /\ \E i \in 1..Len(children) :
          /\ children[i].key = 1
          /\ Len(children[i].value.children) = 2
          /\ children[i].value.children[1].id = ThreadCommentId(1, 1)
          /\ children[i].value.children[1].children[1].id = ThreadCommentId(1, 2)
          /\ children[i].value.children[2].id = ThreadCommentId(2, 1)

\* ------------------------------------------------------------ make_digest
\* A source item of the configuration is a URL string, a dict with a "url"
\* key and further keyword arguments, a dict with a "search" key, or some
\* other dict.  A URL is a host and a path; the path is its sequence of
\* segments between slashes (a segment has no slash, as in [^/]+).
MaxItems == 3

Digits == {"1"}

Item(form, host, path, extra, query) ==
    [form |-> form, host |-> host, path |-> path, extra |-> extra, query |-> query]

ItemChoices ==
    { Item("str", "github.com", <<"o", "r", "issues">>, None, None),
      Item("str", "ghe.example", <<"o", "r", "pulls">>, None, None),
      Item("str", "github.com", <<"orgs", "o", "projects", "1">>, None, None),
      Item("dict", "github.com", <<"o", "r">>, "title", None),
      Item("dict", "ghe.example", <<"o", "r", "releases">>, "home_repo", None),
      Item("str", "github.com", <<"o">>, None, None),
      Item("str", "github.com", <<"orgs", "o", "projects", "x">>, None, None),
      Item("search", None, <<>>, "title", "is:pr"),
      Item("other", None, <<>>, None, None) }

\* GITHUB_URL_MAP: the handlers in the order the decorator registered them.
GITHUB_URL_MAP ==
    << "get_org_project_entries", "get_repo_entries", "get_repo_issues",
       "get_repo_releases", "get_repo_pull_requests" >>

\* re.fullmatch of the k-th registered pattern against the path.
RouteMatchesM(k, path) ==
    CASE k = 1 -> /\ Len(path) >= 4 /\ path[1] = "orgs" /\ path[3] = "projects"
                  /\ path[4] \in Digits
      [] k = 2 -> Len(path) >= 2
      [] k = 3 -> Len(path) >= 3 /\ path[3] = "issues"
      [] k = 4 -> Len(path) >= 3 /\ path[3] = "releases"
      [] k = 5 -> Len(path) >= 3 /\ path[3] = "pulls"

RouteMatches(k, path) ==
    CASE k = 1 -> /\ Len(path) = 4 /\ path[1] = "orgs" /\ path[3] = "projects"
                  /\ path[4] \in Digits
      [] k = 2 -> Len(path) = 2
      [] k = 3 -> Len(path) = 3 /\ path[3] = "issues"
      [] k = 4 -> Len(path) = 3 /\ path[3] = "releases"
      [] k = 5 -> Len(path) = 3 /\ path[3] = "pulls"

\* method_from_url: the handler of the first pattern that matches, or None
\* where the code raises DinghyError.
MethodFromUrl(path) ==
    LET hits == {k \in 1..Len(GITHUB_URL_MAP) : RouteMatches(k, path)}
    IN  IF hits = {} THEN None
        ELSE GITHUB_URL_MAP[CHOOSE k \in hits : \A h \in hits : k <= h]

\* The keyword arguments a handler accepts beyond those its pattern captures.
AcceptedKwargs(fn) ==
    IF fn = "get_org_project_entries" THEN {"home_repo", "title"} ELSE {"title"}

\* coro_from_item: the handler called for an item, or None where it raises
\* DinghyError (unknown item, URL without a route, unexpected keyword).
CoroFromItem(item) ==
    LET fn == IF item.form \in {"str", "dict"} THEN MethodFromUrl(item.path)
              ELSE IF item.form = "search" THEN "get_search_results"
              ELSE None
    IN  IF fn = None THEN None
        ELSE IF item.extra # None /\ item.extra \notin AcceptedKwargs(fn) THEN None
        ELSE fn

\* The keyword arguments the k-th pattern captures from the path.
RouteKwargs(k, path) ==
    IF k = 1 THEN {<<"org", path[2]>>, <<"number", path[4]>>}
    ELSE {<<"owner", path[1]>>, <<"name", path[2]>>}

\* method_from_url: the captured keyword arguments of the first pattern
\* that matches.
MethodKwargs(path) ==
    LET hits == {k \in 1..Len(GITHUB_URL_MAP) : RouteMatches(k, path)}
    IN  IF hits = {} THEN {}
        ELSE RouteKwargs(CHOOSE k \in hits : \A h \in hits : k <= h, path)

\* coro_from_item: the call fn(**kwargs, **more_kwargs) that makes the
\* fetch operation of an item.
Coro(item) ==
    [ fn |-> CoroFromItem(item),
      kwargs |-> (IF item.form \in {"str", "dict"} THEN MethodKwargs(item.path)
                  ELSE IF item.form = "search" THEN {<<"query", item.query>>}
                  ELSE {})
                 \cup (IF item.extra = None THEN {} ELSE {<<item.extra, "given">>}) ]

\* Digester.github after the items 1..n went through coro_from_item:
\* method_from_url stores the host of every URL it is handed.
RECURSIVE GithubAfter(_, _)
GithubAfterM(its, n) == "github.com"

GithubAfter(its, n) ==
    IF n = 0 THEN "github.com"
    ELSE IF its[n].form \in {"str", "dict"} THEN its[n].host
    ELSE GithubAfter(its, n - 1)

\* The container a handler returns for its source.
ContainerKind(fn) ==
    CASE fn = "get_org_project_entries" -> "project"
      [] fn = "get_search_results" -> "search"
      [] OTHER -> "repo"

\* prepare(): the endpoint of the one GraphqlHelper, self.api_root or
\* https://api.<self.github>/graphql.
NoEndpoint == [url |-> None, host |-> None]

Endpoint(root, host) ==
    IF root # None THEN [url |-> root, host |-> None]
    ELSE [url |-> "https://api.<host>/graphql", host |-> host]

\* The container of a source: fetched through self.gql; the url of a search
\* container is built from self.github, the others come from the API.
Container(fn, item, host, via) ==
    [container_kind |-> ContainerKind(fn), source |-> item,
     link_host |-> IF fn = "get_search_results" THEN host ELSE None,
     via |-> via]

\* asyncio.gather: the results in the order of its arguments.
GatherM(taskres, done) == [k \in 1..Len(done) |-> taskres[done[k]]]

Gather(taskres, done) == [i \in 1..Len(taskres) |-> taskres[i]]

\* asyncio.gather without return_exceptions: the first exception of an
\* operation is raised in make_digest, which has no handler around it.
GatherRaisesM(e) == [pc |-> "gathering", exc |-> None]

GatherRaises(e) == [pc |-> "raised", exc |-> e]

\* make_digest: the operations closed when building item k fails.
ClosedOnFailureM(k) == {}

ClosedOnFailure(k) == 1..(k - 1)

\* The `since` argument: "forever", a duration such as "2 days", an ISO
\* timestamp such as "2023-07-30", or a string that is none of these.  A
\* duration is a number of time units, a timestamp a point in time.
SinceChoices ==
    {[form |-> "forever", value |-> 0], [form |-> "other", value |-> 0]}
    \cup {[form |-> "duration", value |-> d] : d \in 1..MaxTime}
    \cup {[form |-> "iso", value |-> t] : t \in Times}

\* datetime.datetime(year=1980, month=1, day=1): before every time the API
\* reports.
Epoch1980 == 0

\* parse_timedelta: the duration, or None when the string is not one.
NoDelta == [ok |-> FALSE, value |-> 0]

ParseTimedelta(arg) ==
    IF arg.form = "duration" THEN [ok |-> TRUE, value |-> arg.value] ELSE NoDelta

\* parse_since: the cutoff a specification stands for, or the DinghyError
\* raised for a string that is neither a duration nor a timestamp.
ParseSince(arg, current) ==
    IF arg.form = "forever" THEN [exc |-> None, date |-> Epoch1980]
    ELSE IF ParseTimedelta(arg).ok
    THEN [exc |-> None, date |-> current - ParseTimedelta(arg).value]
    ELSE IF arg.form = "iso" THEN [exc |-> None, date |-> arg.value]
    ELSE [exc |-> "DinghyError", date |-> 0]

\* make_digest: show_date
ShowDateM(arg) == TRUE

ShowDate(arg) == arg.form # "forever"

\* make_digest: since_date.  `now() - parse_timedelta(since)` with a
\* parse_timedelta that returned None is a TypeError.
SinceDate(arg, current) ==
    IF arg.form = "forever" THEN [exc |-> None, date |-> Epoch1980]
    ELSE IF ParseTimedelta(arg).ok
    THEN [exc |-> None, date |-> current - ParseTimedelta(arg).value]
    ELSE [exc |-> "TypeError", date |-> 0]

\* since=since_date if show_date else None
NoSince == [shown |-> FALSE, at |-> 0]

RenderedSince(arg, date) ==
    IF ShowDate(arg) THEN [shown |-> TRUE, at |-> date] ELSE NoSince

NoContainer ==
    [container_kind |-> None, source |-> Item(None, None, <<>>, None, None),
     link_host |-> None, via |-> NoEndpoint]

DigestInit ==
    /\ NodesIdle /\ TrimIdle /\ IssueIdle /\ PullIdle /\ ExecIdle /\ FindIdle
    /\ BuildIdle
    /\ since_date = 0 /\ since = Strftime(0) /\ ignore_users = {} /\ user_types = {}
    /\ pcDigest = "start"
    /\ sinceArg \in SinceChoices
    /\ today \in {MaxTime + 1, MaxTime + 2}
    /\ renderedSince = NoSince
    /\ api_root \in {None, "https://ghe.example/api/graphql"}
    /\ endpoint = NoEndpoint
    /\ items \in SeqsUpTo(ItemChoices, MaxItems)
    /\ github = "github.com" /\ coros = <<>> /\ closed = {} /\ prepared = FALSE
    /\ taskResult = <<>> /\ order = <<>> /\ results = <<>> /\ rendered = <<>>
    /\ started = {} /\ fetchExc = <<>>
    /\ digestExc = None /\ named = 0

\* make_digest up to its first suspension: the cutoff is computed and the
\* Digester made; the operations are built in the declared order; the first
\* item that cannot be built closes those built before it and raises;
\* otherwise prepare() runs and gather starts them all.
DigestBuild ==
    /\ pcDigest = "start"
    /\ LET bad == {k \in 1..Len(items) : CoroFromItem(items[k]) = None}
           cut == SinceDate(sinceArg, today)
       IN  IF cut.exc # None
           THEN /\ digestExc' = cut.exc
                /\ pcDigest' = "raised"
                /\ UNCHANGED <<digesterVars, coros, named, closed, github, prepared,
                               started, taskResult, fetchExc, endpoint>>
           ELSE /\ since_date' = cut.date
                /\ since' = Strftime(cut.date)
                /\ ignore_users' = {}
                /\ user_types' = UserTypes(FALSE)
                /\ IF bad # {}
                   THEN LET k == CHOOSE x \in bad : \A y \in bad : x <= y
                        IN  /\ coros' = [i \in 1..(k - 1) |-> Coro(items[i])]
                            /\ named' = k
                            /\ closed' = ClosedOnFailure(k)
                            /\ github' = GithubAfter(items, k)
                            /\ digestExc' = "DinghyError"
                            /\ pcDigest' = "raised"
                            /\ UNCHANGED <<prepared, started, taskResult, fetchExc,
                                           endpoint>>
                   ELSE /\ coros' = [i \in 1..Len(items) |-> Coro(items[i])]
                        /\ github' = GithubAfter(items, Len(items))
                        /\ prepared' = TRUE
                        /\ endpoint' = Endpoint(api_root, github')
                        /\ started' = 1..Len(items)
                        /\ taskResult' = [i \in 1..Len(items) |-> NoContainer]
                        /\ fetchExc' = [i \in 1..Len(items) |-> None]
                        /\ pcDigest' = "gathering"
                        /\ UNCHANGED <<closed, digestExc, named>>
    /\ UNCHANGED <<items, order, results, rendered, sinceArg, today, renderedSince,
                   api_root>>
    /\ DigestFrame

Running == {i \in 1..Len(coros) : \A k \in 1..Len(order) : order[k] # i}

\* One fetch operation returns its container.
DigestTaskReturns(i) ==
    /\ pcDigest = "gathering"
    /\ i \in Running
    /\ taskResult' = [taskResult EXCEPT
                         ![i] = Container(coros[i].fn, items[i], github, endpoint)]
    /\ order' = Append(order, i)
    /\ UNCHANGED <<pcDigest, items, github, coros, closed, prepared, started, fetchExc,
                   results, rendered, digestExc, named, sinceArg, today,
                   renderedSince, api_root, endpoint, digesterVars>>
    /\ DigestFrame

\* One fetch operation raises: gather passes the first exception on to
\* make_digest, which does not catch it.
DigestTaskRaises(i) ==
    /\ pcDigest = "gathering"
    /\ i \in Running
    /\ \E e \in {"DinghyError", "Exception"} :
          /\ fetchExc' = [fetchExc EXCEPT ![i] = e]
          /\ digestExc' = GatherRaises(e).exc
          /\ pcDigest' = GatherRaises(e).pc
    /\ order' = Append(order, i)
    /\ UNCHANGED <<items, github, coros, closed, prepared, started, taskResult,
                   results, rendered, named, sinceArg, today, renderedSince,
                   api_root, endpoint, digesterVars>>
    /\ DigestFrame

\* Every operation returned: gather returns and the renderer is called.
DigestRender ==
    /\ pcDigest = "gathering"
    /\ Running = {}
    /\ results' = Gather(taskResult, order)
    /\ rendered' = results'
    /\ renderedSince' = RenderedSince(sinceArg, since_date)
    /\ pcDigest' = "rendered"
    /\ UNCHANGED <<items, github, coros, closed, prepared, started, taskResult,
                   fetchExc, order, digestExc, named, sinceArg, today, api_root,
                   endpoint, digesterVars>>
    /\ DigestFrame

DigestNext ==
    \/ DigestBuild
    \/ \E i \in 1..MaxItems : DigestTaskReturns(i)
    \/ \E i \in 1..MaxItems : DigestTaskRaises(i)
    \/ DigestRender

SpecDigest == DigestInit /\ [][DigestNext]_vars

\* C2: the container list handed to the renderer has one container per
\* declared source, at the index of that source in the declared list,
\* whatever the order in which the fetch operations completed.
C2_DeclaredOrder ==
    pcDigest = "rendered" =>
       /\ Len(rendered) = Len(items)
       /\ \A i \in 1..Len(items) : rendered[i].source = items[i]

C2_Witness ==
    /\ pcDigest = "rendered"
    /\ Len(items) = 3
    /\ order = <<3, 1, 2>>
    /\ items[1] # items[2] /\ items[1] # items[3] /\ items[2] # items[3]
    /\ \A i \in 1..3 : rendered[i].source = items[i]

\* ------------------------------------- GraphqlHelper.execute, _raw_execute
\* Up to MaxCalls execute() calls run concurrently on the event loop, each
\* through one GraphqlHelper instance.  Every session.post is answered by
\* the server with a status and, for a good status, rate-limit headers and
\* a JSON body; all the calls together make at most MaxRequests requests.
MaxCalls == 2
MaxRequests == 3

NUM_TRIES == 200
PAUSE == 5
RateLimitBuffer == 10
RateLimitHistoryLen == 50

Max(a, b) == IF a >= b THEN a ELSE b

Instances == {"A", "B"}
Statuses == {200, 401, 403, 500, 502}
ResetDeltas == {1, 3}

\* A response body.  errors is the "errors" list as the sequence of the
\* errors' types, empty when the body has no such key; message tells whether
\* the body has a "message" key; data is "some", "null" or "absent".
Body(id, errors, message, data) ==
    [id |-> id, errors |-> errors, message |-> message, data |-> data]

NoBody == Body(0, <<>>, FALSE, "absent")

ErrorLists ==
    { <<"RATE_LIMITED">>, <<"OTHER">>, <<"INSUFFICIENT_SCOPES">>,
      <<"OTHER", "RATE_LIMITED">>, <<"RATE_LIMITED", "OTHER">>,
      <<"OTHER", "INSUFFICIENT_SCOPES">> }

BodyChoices(id) ==
    {Body(id, errs, FALSE, "null") : errs \in ErrorLists}
    \cup { Body(id, <<>>, FALSE, "some"), Body(id, <<>>, TRUE, "absent"),
           Body(id, <<>>, FALSE, "null"),
           Body(id, <<"INSUFFICIENT_SCOPES">>, TRUE, "null") }

\* _summarize_rate_limit: the snapshot of one response's headers.
Snapshot(reset, inst, id) == [reset |-> reset, inst |-> inst, id |-> id]

\* save_rate_limit: append to the class-level deque(maxlen=50).
SaveRateLimit(history, snap) ==
    LET h == Append(history, snap)
    IN  IF Len(h) > RateLimitHistoryLen THEN Tail(h) ELSE h

\* last_rate_limit
LastRateLimit(history) == history[Len(history)]

\* execute(): is the body a rate-limit answer to be waited out?
IsRateLimitedM(body) ==
    \E k \in 1..Len(body.errors) : body.errors[k] = "RATE_LIMITED"

IsRateLimited(body) ==
    body.errors # <<>> /\ body.errors[1] = "RATE_LIMITED"

\* execute(): the argument of the rate-limit sleep.
BackoffDelay(reset, t) == reset - t + RateLimitBuffer

\* _raise_if_error: the exception raised for a body, or None.
RaiseIfErrorM(body) ==
    IF body.message \/ body.errors # <<>> \/ body.data = "null" THEN "Exception"
    ELSE None

RaiseIfError(body) ==
    IF body.message THEN "Exception"
    ELSE IF body.errors # <<>>
         THEN IF body.errors[1] = "INSUFFICIENT_SCOPES" THEN "DinghyError"
              ELSE "Exception"
    ELSE IF body.data = "null" THEN "Exception"
    ELSE None

\* _raw_execute: a 401 answer is a usage error.
UnauthorizedM(status) == FALSE

Unauthorized(status) == status = 401

\* _raw_execute: a 403 or 502 answer is waited out while tries are left.
WaitsOutM(status, trynum) == status \in {403, 502}

WaitsOut(status, trynum) == status \in {403, 502} /\ trynum < NUM_TRIES - 1

NewCall(inst, trynum) ==
    [ inst |-> inst, pc |-> "post", trynum |-> trynum,
      total_wait |-> PAUSE * trynum, wakeAt |-> 0,
      tries |-> trynum,    \* requests this run of _raw_execute has issued
      asked |-> 0,         \* serial number of this call's latest request
      status |-> 0,        \* status of the answer being handled, 0 for none
      pausedAt |-> 0,      \* when the latest asyncio.sleep(PAUSE) began
      answer |-> 0,        \* id of the response whose body is being read
      bodies |-> <<>>,     \* the bodies this call has read, in order
      backoffs |-> <<>>,   \* the rate-limit sleeps this call has begun
      ret |-> NoBody, exc |-> None, cause |-> 0 ]

\* The calls start with the first request of _raw_execute, or late in its
\* loop after NUM_TRIES - 2 answers of 403 or 502.
ExecInit ==
    /\ NodesIdle /\ TrimIdle /\ IssueIdle /\ PullIdle /\ DigestIdle /\ FindIdle
    /\ BuildIdle
    /\ NewDigester(MaxTime, FALSE, {})
    /\ now = 0 /\ rate_limit_history = <<>> /\ requests = 0
    /\ \E n \in 1..MaxCalls :
          \E insts \in [1..n -> Instances], tries \in [1..n -> {0, NUM_TRIES - 2}] :
             /\ insts[1] = "A"
             /\ call = [c \in 1..n |-> NewCall(insts[c], tries[c])]

Sleeping(c) == call[c].pc \in {"pause", "backoff"}

\* The event loop wakes sleepers in the order of their deadlines.
MayWake(c) ==
    \A d \in DOMAIN call : Sleeping(d) => call[c].wakeAt <= call[d].wakeAt

\* session.post answers: 401 raises, 403 and 502 pause and try again while
\* tries are left, another bad status raises, a good one records the
\* rate-limit snapshot and goes on to read the body.
ExecPost(c) ==
    /\ c \in DOMAIN call
    /\ call[c].pc = "post"
    /\ requests < MaxRequests
    /\ requests' = requests + 1
    /\ \E status \in Statuses, delta \in ResetDeltas :
          LET asked == [call EXCEPT ![c].tries = @ + 1, ![c].asked = requests',
                                    ![c].status = status]
          IN  IF Unauthorized(status)
              THEN /\ call' = [asked EXCEPT ![c].pc = "raised",
                                            ![c].exc = "DinghyError"]
                   /\ UNCHANGED rate_limit_history
              ELSE IF WaitsOut(status, call[c].trynum)
              THEN /\ call' = [asked EXCEPT ![c].pc = "pause", ![c].pausedAt = now,
                                            ![c].wakeAt = now + PAUSE]
                   /\ UNCHANGED rate_limit_history
              ELSE IF status >= 400
              THEN /\ call' = [asked EXCEPT ![c].pc = "raised",
                                            ![c].exc = "ClientResponseError"]
                   /\ UNCHANGED rate_limit_history
              ELSE /\ rate_limit_history' =
                         SaveRateLimit(rate_limit_history,
                                       Snapshot(now + delta, call[c].inst, requests'))
                   /\ call' = [asked EXCEPT ![c].pc = "json", ![c].answer = requests']
    /\ UNCHANGED now
    /\ ExecFrame

\* asyncio.sleep(PAUSE) is over: the next try of the loop.  A loop that
\* runs out of tries here would leave _raw_execute without a return value,
\* and execute() would fail on `"errors" in data` with a TypeError.
ExecWakePause(c) ==
    /\ c \in DOMAIN call
    /\ call[c].pc = "pause"
    /\ MayWake(c)
    /\ now' = Max(now, call[c].wakeAt)
    /\ IF call[c].trynum + 1 < NUM_TRIES
       THEN call' = [call EXCEPT ![c].pc = "post", ![c].trynum = @ + 1,
                                 ![c].total_wait = @ + PAUSE, ![c].status = 0]
       ELSE call' = [call EXCEPT ![c].pc = "raised", ![c].exc = "TypeError",
                                 ![c].total_wait = @ + PAUSE, ![c].status = 0]
    /\ UNCHANGED <<rate_limit_history, requests>>
    /\ ExecFrame

\* response.json() returns and execute() goes on: a rate-limited body sleeps
\* until the latest snapshot's reset and runs _raw_execute again; any other
\* body leaves the loop and is returned unless _raise_if_error raises.
ExecJson(c) ==
    /\ c \in DOMAIN call
    /\ call[c].pc = "json"
    /\ \E body \in BodyChoices(call[c].answer) :
          IF IsRateLimited(body)
          THEN LET reset == LastRateLimit(rate_limit_history).reset
                   delay == BackoffDelay(reset, now)
               IN  call' = [call EXCEPT
                      ![c].pc = "backoff",
                      ![c].bodies = Append(@, body),
                      ![c].wakeAt = now + Max(0, delay),
                      ![c].backoffs = Append(@, [answer |-> body.id, at |-> now,
                                                 reset |-> reset, delay |-> delay,
                                                 sent |-> requests])]
          ELSE IF RaiseIfError(body) # None
          THEN call' = [call EXCEPT ![c].pc = "raised", ![c].bodies = Append(@, body),
                                    ![c].exc = RaiseIfError(body), ![c].cause = body.id]
          ELSE call' = [call EXCEPT ![c].pc = "returned", ![c].bodies = Append(@, body),
                                    ![c].ret = body]
    /\ UNCHANGED <<now, rate_limit_history, requests>>
    /\ ExecFrame

\* The rate-limit sleep is over: _raw_execute is called again.
ExecWakeBackoff(c) ==
    /\ c \in DOMAIN call
    /\ call[c].pc = "backoff"
    /\ MayWake(c)
    /\ now' = Max(now, call[c].wakeAt)
    /\ call' = [call EXCEPT ![c].pc = "post", ![c].trynum = 0, ![c].total_wait = 0,
                            ![c].tries = 0, ![c].status = 0]
    /\ UNCHANGED <<rate_limit_history, requests>>
    /\ ExecFrame

ExecNext ==
    \/ \E c \in 1..MaxCalls : ExecPost(c)
    \/ \E c \in 1..MaxCalls : ExecWakePause(c)
    \/ \E c \in 1..MaxCalls : ExecJson(c)
    \/ \E c \in 1..MaxCalls : ExecWakeBackoff(c)

SpecExec == ExecInit /\ [][ExecNext]_vars

\* The body's first error is tagged RATE_LIMITED.
FirstErrorRateLimited(body) ==
    Len(body.errors) >= 1 /\ body.errors[1] = "RATE_LIMITED"

\* The body carries no failure at all.
CleanBody(body) ==
    body.errors = <<>> /\ ~body.message /\ body.data = "some"

\* C10 (amended): whenever a response body's first error is tagged
\* RATE_LIMITED, execute() surfaces no error for that response but sleeps
\* for the reset epoch of the latest rate-limit snapshot minus now plus 10 s
\* and then issues the query again; no count caps the retries, and n
\* rate-limited bodies in a row followed by a clean body make execute()
\* return that clean body.
C10_RateLimitRetry ==
    \A c \in DOMAIN call :
       LET bs == call[c].bodies
           ws == call[c].backoffs
           limited == {k \in 1..Len(bs) : FirstErrorRateLimited(bs[k])}
       IN  /\ Len(ws) = Cardinality(limited)
           /\ \A k \in limited :
                 /\ call[c].cause # bs[k].id
                 /\ call[c].ret # bs[k]
                 /\ k <= Len(ws)
                 /\ ws[k].answer = bs[k].id
                 /\ ws[k].delay = ws[k].reset - ws[k].at + 10
                 /\ \E h \in 1..Len(rate_limit_history) :
                       /\ rate_limit_history[h].id >= bs[k].id
                       /\ rate_limit_history[h].reset = ws[k].reset
                 /\ (k < Len(bs) \/ call[c].pc # "backoff") =>
                       now >= ws[k].at + Max(0, ws[k].delay)
                 /\ k = Len(bs) =>
                       \/ call[c].pc \in {"backoff", "post", "pause", "json"}
                       \/ call[c].pc = "raised" /\ call[c].cause = 0
           /\ \A k \in 1..(Len(bs) - 1) : k \in limited
           /\ call[c].pc = "returned" =>
                 /\ bs # <<>>
                 /\ call[c].ret = bs[Len(bs)]
                 /\ CleanBody(call[c].ret)
           /\ (/\ bs # <<>> /\ CleanBody(bs[Len(bs)]))
                 => call[c].pc = "returned" /\ call[c].ret = bs[Len(bs)]

C10_Witness ==
    \E c \in DOMAIN call :
       /\ call[c].pc = "returned"
       /\ Len(call[c].bodies) = MaxRequests
       /\ call[c].bodies[1].errors = <<"RATE_LIMITED">>
       /\ call[c].bodies[2].errors = <<"RATE_LIMITED", "OTHER">>
       /\ Len(call[c].backoffs) = MaxRequests - 1
       /\ now >= 2 * RateLimitBuffer

\* C10 as stated: whenever a response body's error list has an error tagged
\* RATE_LIMITED, execute() surfaces no error for that response but sleeps
\* and issues the query again.
C10_AnyRateLimitedErrorRetried ==
    \A c \in DOMAIN call :
       \A k \in 1..Len(call[c].bodies) :
          (\E e \in 1..Len(call[c].bodies[k].errors) :
              call[c].bodies[k].errors[e] = "RATE_LIMITED")
             => /\ call[c].cause # call[c].bodies[k].id
                /\ \E w \in 1..Len(call[c].backoffs) :
                      call[c].backoffs[w].answer = call[c].bodies[k].id

\* C11: an answer of 403 or 502 is retried after a pause of 5 s, one run
\* of _raw_execute issues at most 200 requests, the last permitted try
\* raises the HTTP error when it is answered 403 or 502 too, and the run
\* never ends without a body or an exception.
C11_TransportRetry ==
    \A c \in DOMAIN call :
       /\ call[c].tries <= 200
       /\ call[c].exc # "TypeError"
       /\ call[c].status \in {403, 502} =>
             \/ /\ call[c].pc = "pause"
                /\ call[c].tries < 200
                /\ call[c].wakeAt = call[c].pausedAt + 5
             \/ /\ call[c].pc = "raised"
                /\ call[c].exc = "ClientResponseError"
                /\ call[c].tries = 200
       /\ (call[c].pc = "post" /\ call[c].asked > 0 /\ call[c].tries > 0) =>
             now >= call[c].pausedAt + 5
       /\ call[c].pc = "json" =>
             call[c].status = 200 /\ call[c].answer = call[c].asked
       /\ call[c].pc \in {"post", "pause", "json", "backoff", "returned", "raised"}

C11_Witness ==
    \E c \in DOMAIN call :
       /\ call[c].pc = "raised"
       /\ call[c].exc = "ClientResponseError"
       /\ call[c].status \in {403, 502}
       /\ call[c].tries = NUM_TRIES
       /\ call[c].total_wait = PAUSE * (NUM_TRIES - 1)
       /\ now >= PAUSE

\* C12: a 401 answer makes _raw_execute raise DinghyError at once: the
\* call is over, it took no pause for that answer, and no rate-limit
\* snapshot of that answer is recorded, whatever retries came before.
C12_UnauthorizedRaises ==
    \A c \in DOMAIN call :
       call[c].status = 401 =>
          /\ call[c].pc = "raised"
          /\ call[c].exc = "DinghyError"
          /\ call[c].cause = 0
          /\ call[c].tries = call[c].trynum + 1
          /\ call[c].total_wait = PAUSE * call[c].trynum
          /\ \A h \in 1..Len(rate_limit_history) :
                rate_limit_history[h].id # call[c].asked
          /\ \A d \in DOMAIN call : call[d].asked = call[c].asked => d = c

C12_Witness ==
    \E c \in DOMAIN call :
       /\ call[c].status = 401
       /\ call[c].pc = "raised"
       /\ call[c].trynum = NUM_TRIES - 1
       /\ call[c].asked = MaxRequests
       /\ rate_limit_history # <<>>

\* C13 (amended): for a body that is not rate-limited and has no top-level
\* message, a first error of the user-fixable type INSUFFICIENT_SCOPES
\* raises DinghyError, a first error of another type raises a generic
\* error, and no errors with a null data payload raises a generic error; a
\* body with a top-level message raises a generic error; in every such
\* case no body is returned.
C13_ErrorClassification ==
    \A c \in DOMAIN call :
       call[c].bodies # <<>> =>
          LET b == call[c].bodies[Len(call[c].bodies)]
              fails == b.message \/ b.errors # <<>> \/ b.data = "null"
          IN  (~FirstErrorRateLimited(b) /\ fails) =>
                 /\ call[c].pc = "raised"
                 /\ call[c].cause = b.id
                 /\ call[c].ret = NoBody
                 /\ (~b.message /\ b.errors # <<>>
                       /\ b.errors[1] = "INSUFFICIENT_SCOPES")
                      => call[c].exc = "DinghyError"
                 /\ (b.errors # <<>> /\ b.errors[1] # "INSUFFICIENT_SCOPES")
                      => call[c].exc = "Exception"
                 /\ (b.errors = <<>> /\ b.data = "null")
                      => call[c].exc = "Exception"
                 /\ b.message => call[c].exc = "Exception"

C13_Witness ==
    \E c, d \in DOMAIN call :
       /\ c # d
       /\ call[c].pc = "raised" /\ call[c].exc = "DinghyError" /\ call[c].cause # 0
       /\ call[c].bodies[Len(call[c].bodies)].errors = <<"INSUFFICIENT_SCOPES">>
       /\ Len(call[c].bodies) = 2
       /\ call[d].pc = "raised" /\ call[d].exc = "Exception"
       /\ call[d].bodies # <<>>
       /\ call[d].bodies[Len(call[d].bodies)].errors = <<"OTHER", "INSUFFICIENT_SCOPES">>

\* C13 as stated: a body that is not rate-limited and whose error list
\* carries an error of the user-fixable type raises DinghyError.
C13_AnyUserFixableError ==
    \A c \in DOMAIN call :
       call[c].bodies # <<>> =>
          LET b == call[c].bodies[Len(call[c].bodies)]
          IN  (/\ \A k \in 1..Len(b.errors) : b.errors[k] # "RATE_LIMITED"
               /\ \E k \in 1..Len(b.errors) : b.errors[k] = "INSUFFICIENT_SCOPES")
                 => call[c].exc = "DinghyError"

\* self.rate_limit_history of an instance: the attribute is looked up on
\* the class, so every instance reads and appends to the same deque.
HistoryOf(inst) == rate_limit_history

\* C19: the history is owned by one instance: every snapshot in an
\* instance's history, its latest one included, was recorded by a request
\* sent through that same instance.
C19_InstanceScopedHistory ==
    \A inst \in Instances :
       \A k \in 1..Len(HistoryOf(inst)) : HistoryOf(inst)[k].inst = inst

\* C20: while a call sleeps in a rate-limit backoff that has not run out,
\* no other call of the same instance has sent a request since the sleep
\* began.
C20_BackoffBlocksInstance ==
    \A c, d \in DOMAIN call :
       (/\ c # d
        /\ call[c].inst = call[d].inst
        /\ call[c].pc = "backoff"
        /\ call[c].wakeAt > now)
       => call[d].asked <= call[c].backoffs[Len(call[c].backoffs)].sent

\* C28: the reset time a rate-limit backoff waits for is the reset time of
\* the snapshot recorded from the very response that was rate limited,
\* whatever other responses arrived in between.
C28_WaitsForOwnSnapshot ==
    \A c \in DOMAIN call :
       \A k \in 1..Len(call[c].backoffs) :
          \A i \in 1..Len(rate_limit_history) :
             rate_limit_history[i].id = call[c].backoffs[k].answer
                => rate_limit_history[i].reset = call[c].backoffs[k].reset

\* ----------------------------------------- find_dict_with_key in nodes()
\* A JSON value is a node [key, kind, kids]: key is the key it is stored
\* under in its parent dict ("" in a list and at the top), kind is "dict",
\* "list" or "scalar", kids are a dict's values in insertion order or a
\* list's elements.
MaxDepth == 3
MaxKids == 2
MaxListLen == 1

RootKeys == {"data", "nodes", "pageInfo"}
InnerKeys == {"nodes", "pageInfo"}

Json(key, kind, kids) == [key |-> key, kind |-> kind, kids |-> kids]

NoDict == Json("", "none", <<>>)

DistinctKeys(kids) ==
    \A i, j \in 1..Len(kids) : i # j => kids[i].key # kids[j].key

\* The values of nesting depth at most n stored under one of the keys; the
\* dict at the top takes its keys from RootKeys, the dicts below from
\* InnerKeys.
RECURSIVE JsonValues(_, _)
JsonValues(n, keys) ==
    {Json(k, "scalar", <<>>) : k \in keys}
    \cup (IF n = 0 THEN {}
          ELSE LET below == IF n = MaxDepth THEN RootKeys ELSE InnerKeys
                   vals == JsonValues(n - 1, below)
                   elts == JsonValues(n - 1, {""})
               IN  {Json(k, "dict", ks) :
                       k \in keys, ks \in {x \in SeqsUpTo(vals, MaxKids) : DistinctKeys(x)}}
                   \cup {Json(k, "list", ks) :
                            k \in keys, ks \in SeqsUpTo(elts, MaxListLen)})

\* key in d
HasJsonKey(d, key) == \E i \in 1..Len(d.kids) : d.kids[i].key = key

\* find_dict_with_key: d itself when it has the key, else the first result
\* that is not None among the values that are dicts, in order, else None.
RECURSIVE FindDictWithKey(_, _)
RECURSIVE FindInValues(_, _, _)
FindInValuesM(d, key, i) ==
    IF i > Len(d.kids) THEN NoDict
    ELSE IF d.kids[i].kind = "dict" THEN FindDictWithKey(d.kids[i], key)
    ELSE FindInValues(d, key, i + 1)

FindInValues(d, key, i) ==
    IF i > Len(d.kids) THEN NoDict
    ELSE IF d.kids[i].kind = "dict"
         THEN LET sd == FindDictWithKey(d.kids[i], key)
              IN  IF sd # NoDict THEN sd ELSE FindInValues(d, key, i + 1)
    ELSE FindInValues(d, key, i + 1)

FindDictWithKey(d, key) ==
    IF HasJsonKey(d, key) THEN d ELSE FindInValues(d, key, 1)

FindInit ==
    /\ NodesIdle /\ TrimIdle /\ IssueIdle /\ PullIdle /\ DigestIdle /\ ExecIdle /\ BuildIdle
    /\ NewDigester(MaxTime, FALSE, {})
    /\ pcFind = "loop"
    /\ response \in {v \in JsonValues(MaxDepth, {""}) : v.kind = "dict"}
    /\ fetchedDict = NoDict
    /\ findExc = None

\* The first round of the loop of nodes() up to nodes.extend: no container
\* raises DinghyError, a container without "nodes" raises KeyError.
FindContainer ==
    /\ pcFind = "loop"
    /\ fetchedDict' = FindDictWithKey(response, "pageInfo")
    /\ IF fetchedDict' = NoDict
       THEN pcFind' = "raised" /\ findExc' = "DinghyError"
       ELSE IF ~HasJsonKey(fetchedDict', "nodes")
       THEN pcFind' = "raised" /\ findExc' = "KeyError"
       ELSE pcFind' = "extended" /\ findExc' = None
    /\ UNCHANGED response
    /\ FindFrame

FindNext == FindContainer

SpecFind == FindInit /\ [][FindNext]_vars

\* The value reached from d along a path of child positions.
RECURSIVE JsonAt(_, _)
JsonAt(d, path) ==
    IF path = <<>> THEN d ELSE JsonAt(d.kids[Head(path)], Tail(path))

\* The path leads from d to a dict, through values of the given kinds only.
RECURSIVE LeadsToDict(_, _, _)
LeadsToDict(d, path, through) ==
    IF path = <<>> THEN d.kind = "dict"
    ELSE /\ d.kind \in through
         /\ Head(path) <= Len(d.kids)
         /\ LeadsToDict(d.kids[Head(path)], Tail(path), through)

\* Depth-first order of paths: a path comes before its extensions and
\* before every path that turns to a later child.
RECURSIVE PathBefore(_, _)
PathBefore(p, q) ==
    IF p = <<>> THEN q # <<>>
    ELSE IF q = <<>> THEN FALSE
    ELSE IF Head(p) # Head(q) THEN Head(p) < Head(q)
    ELSE PathBefore(Tail(p), Tail(q))

\* The paths to the dicts with a "pageInfo" key.
PageInfoPaths(through) ==
    {p \in SeqsUpTo(1..MaxKids, MaxDepth) :
        /\ LeadsToDict(response, p, through)
        /\ HasJsonKey(JsonAt(response, p), "pageInfo")}

\* C14 (amended): nodes() takes as container the first dict with a pageInfo
\* key in depth-first order over the response's nested dict values, and
\* raises DinghyError exactly when no dict reached through dict values
\* alone has that key.
C14_FirstPageInfoDict ==
    pcFind # "loop" =>
       LET cands == PageInfoPaths({"dict"})
       IN  IF cands = {}
           THEN fetchedDict = NoDict /\ findExc = "DinghyError"
           ELSE /\ findExc # "DinghyError"
                /\ \E p \in cands :
                      /\ \A q \in cands : q # p => PathBefore(p, q)
                      /\ fetchedDict = JsonAt(response, p)

C14_Witness ==
    /\ pcFind = "extended"
    /\ Len(response.kids) = 2
    /\ response.kids[1].kind = "dict" /\ ~HasJsonKey(response.kids[1], "pageInfo")
    /\ response.kids[2].kind = "dict" /\ HasJsonKey(response.kids[2], "pageInfo")
    /\ LeadsToDict(response, <<1, 1>>, {"dict"})
    /\ fetchedDict = JsonAt(response, <<1, 1>>)
    /\ fetchedDict # response.kids[2]

\* C14 as stated: nodes() raises DinghyError exactly when no dict with a
\* pageInfo key exists anywhere in the response.
C14_NoPageInfoAnywhere ==
    pcFind # "loop" =>
       (findExc = "DinghyError" <=> PageInfoPaths({"dict", "list"}) = {})

\* C15: when the fetch operation of a source fails, make_digest raises
\* that very exception, the renderer is never called and no list of
\* containers, partial or not, is emitted.
C15_BatchFailure ==
    \A i \in 1..Len(fetchExc) :
       fetchExc[i] # None =>
          /\ pcDigest = "raised"
          /\ digestExc = fetchExc[i]
          /\ results = <<>>
          /\ rendered = <<>>

C15_Witness ==
    /\ pcDigest = "raised"
    /\ Len(items) = 3
    /\ order = <<3, 1>>
    /\ fetchExc[1] = "Exception"
    /\ taskResult[3] # NoContainer
    /\ rendered = <<>>

\* make_digest got as far as handing the items to coro_from_item.
ReachedBuild == pcDigest # "start" /\ SinceDate(sinceArg, today).exc = None

\* C16: when building the operation of the k-th source fails, the
\* operations built for the sources before it are all closed and none was
\* started, prepare() has not created the network helper, the renderer is
\* not called and the build error is raised.
C16_BuildFailure ==
    \A k \in 1..Len(items) :
       (/\ ReachedBuild
        /\ CoroFromItem(items[k]) = None
        /\ \A j \in 1..(k - 1) : CoroFromItem(items[j]) # None)
          => /\ pcDigest = "raised"
             /\ digestExc = "DinghyError"
             /\ Len(coros) = k - 1
             /\ closed = 1..(k - 1)
             /\ started = {}
             /\ ~prepared
             /\ taskResult = <<>> /\ order = <<>>
             /\ results = <<>> /\ rendered = <<>>

C16_Witness ==
    /\ pcDigest = "raised"
    /\ Len(items) = 3
    /\ CoroFromItem(items[3]) = None
    /\ closed = {1, 2}
    /\ coros[1].fn = "get_repo_issues" /\ coros[2].fn = "get_search_results"
    /\ ~prepared

\* The handler and arguments the dispatch table gives a path: org project,
\* bare repo, repo issues, repo releases, repo pulls.
Dispatched(path) ==
    IF Len(path) = 4 /\ path[1] = "orgs" /\ path[3] = "projects" /\ path[4] \in Digits
    THEN [fn |-> "get_org_project_entries",
          kwargs |-> {<<"org", path[2]>>, <<"number", path[4]>>}]
    ELSE IF Len(path) = 2
    THEN [fn |-> "get_repo_entries",
          kwargs |-> {<<"owner", path[1]>>, <<"name", path[2]>>}]
    ELSE IF Len(path) = 3 /\ path[3] \in {"issues", "releases", "pulls"}
    THEN [fn |-> (CASE path[3] = "issues" -> "get_repo_issues"
                    [] path[3] = "releases" -> "get_repo_releases"
                    [] path[3] = "pulls" -> "get_repo_pull_requests"),
          kwargs |-> {<<"owner", path[1]>>, <<"name", path[2]>>}]
    ELSE [fn |-> None, kwargs |-> {}]

\* The item is a URL no pattern matches, or neither a URL nor a search.
Undispatchable(item) ==
    \/ item.form \in {"str", "dict"} /\ Dispatched(item.path).fn = None
    \/ item.form = "other"

\* C17: the operation built for a URL item calls the handler of the first
\* registered pattern that matches its whole path with the captured fields
\* as arguments; an item that is a URL no pattern matches, or neither a URL
\* nor a search, raises DinghyError naming it and yields no operation.
C17_SourceDispatch ==
    ReachedBuild =>
       /\ \A i \in 1..Len(coros) :
             /\ ~Undispatchable(items[i])
             /\ items[i].form \in {"str", "dict"} =>
                   /\ coros[i].fn = Dispatched(items[i].path).fn
                   /\ Dispatched(items[i].path).kwargs \subseteq coros[i].kwargs
                   /\ \A a \in coros[i].kwargs :
                         a \in Dispatched(items[i].path).kwargs \/ a[1] = items[i].extra
       /\ \A k \in 1..Len(items) :
             (Undispatchable(items[k]) /\ \A j \in 1..(k - 1) : CoroFromItem(items[j]) # None)
                => /\ pcDigest = "raised"
                   /\ digestExc = "DinghyError"
                   /\ named = k
                   /\ Len(coros) = k - 1

C17_Witness ==
    /\ pcDigest = "raised"
    /\ Len(items) = 3 /\ Len(coros) = 2
    /\ items[3].form = "str" /\ items[3].path = <<"o">>
    /\ named = 3
    /\ coros[1].fn = "get_org_project_entries"
    /\ coros[1].kwargs = {<<"org", "o">>, <<"number", "1">>}
    /\ coros[2].fn = "get_repo_entries"
    /\ coros[2].kwargs = {<<"owner", "o">>, <<"name", "r">>, <<"title", "given">>}

\* ------------------------------------------------------------ build_query
\* A document is known by its file name; its text matters only through the
\* "# fragment: name" references in it, in the order they occur.
MaxRefs == 2

RootDoc == "root.graphql"
DocNames == {RootDoc, "a.graphql", "b.graphql"}

\* The inner loop over the references of one document's text.
RECURSIVE ScanRefs(_, _, _)
ScanRefs(refs, seen, next) ==
    IF refs = <<>> THEN [seen |-> seen, next |-> next]
    ELSE IF Head(refs) \notin seen
         THEN ScanRefs(Tail(refs), seen \cup {Head(refs)}, Append(next, Head(refs)))
         ELSE ScanRefs(Tail(refs), seen, next)

\* The loop over the file names of one round.
RECURSIVE ScanFiles(_, _, _, _, _)
ScanFiles(docs, filenames, query, seen, next) ==
    IF filenames = <<>> THEN [query |-> query, seen |-> seen, next |-> next]
    ELSE LET r == ScanRefs(docs[Head(filenames)], seen, next)
         IN  ScanFiles(docs, Tail(filenames), Append(query, Head(filenames)),
                       r.seen, r.next)

\* The while loop: round after round until no file name is left.
RECURSIVE BuildRounds(_, _, _, _)
BuildRounds(docs, filenames, query, seen) ==
    IF filenames = <<>> THEN query
    ELSE LET r == ScanFiles(docs, filenames, query, seen, <<>>)
         IN  BuildRounds(docs, r.next, r.query, r.seen)

\* build_query(gql_filename): the documents joined, in order.
BuildQuery(docs, gql_filename) == BuildRounds(docs, <<gql_filename>>, <<>>, {})

BuildInit ==
    /\ NodesIdle /\ TrimIdle /\ IssueIdle /\ PullIdle /\ DigestIdle /\ ExecIdle
    /\ FindIdle
    /\ NewDigester(MaxTime, FALSE, {})
    /\ pcBuild = "start"
    /\ documents \in [DocNames -> SeqsUpTo(DocNames, MaxRefs)]
    /\ composed = <<>>

BuildQueryRuns ==
    /\ pcBuild = "start"
    /\ composed' = BuildQuery(documents, RootDoc)
    /\ pcBuild' = "done"
    /\ UNCHANGED documents
    /\ BuildFrame

BuildNext == BuildQueryRuns

SpecBuild == BuildInit /\ [][BuildNext]_vars

\* C18: for every reference graph among the documents, cycles and
\* references to the root included, the text of each document, the root
\* included, appears at most once in the composed query.
C18_EachDocumentOnce ==
    pcBuild = "done" =>
       \A i, j \in 1..Len(composed) : i # j => composed[i] # composed[j]

\* ------------------------------------------------- the cutoff of a digest
\* C22: with the cutoff "forever" the Digester's cutoff is 1980-01-01, every
\* time the API reports passes the recency test of the interest predicate,
\* and the renderer is handed no cutoff; with any other cutoff the renderer
\* is handed the cutoff the Digester was made with.
C22_ForeverCutoff ==
    pcDigest = "rendered" =>
       IF sinceArg.form = "forever"
       THEN /\ since_date = Epoch1980
            /\ since = Strftime(Epoch1980)
            /\ \A t \in Times : NodeIsRecent(Node(1, t, Alice, <<>>))
            /\ renderedSince = NoSince
       ELSE /\ renderedSince.shown
            /\ renderedSince.at = since_date
            /\ since = Strftime(since_date)
            /\ since_date = today - sinceArg.value

C22_Witness ==
    /\ pcDigest = "rendered"
    /\ sinceArg.form = "forever"
    /\ Len(rendered) = 2
    /\ renderedSince = NoSince

\* C23: make_digest resolves its cutoff as parse_since does: "forever" is
\* 1980-01-01, a duration is now minus the duration, an ISO timestamp is
\* that timestamp, and anything else raises DinghyError before any fetch
\* operation is built.
C23_CutoffResolution ==
    pcDigest # "start" =>
       LET want == ParseSince(sinceArg, today)
       IN  IF want.exc = None
           THEN /\ user_types # {}
                /\ since_date = want.date
                /\ since = Strftime(want.date)
           ELSE /\ pcDigest = "raised"
                /\ digestExc = want.exc
                /\ coros = <<>> /\ started = {} /\ ~prepared

\* ------------------------------------------------ the endpoint of a digest
\* The items handed to coro_from_item: all of them, or those up to the one
\* whose operation could not be built.
Handed == IF pcDigest = "raised" /\ named > 0 THEN 1..named ELSE 1..Len(items)

\* The host of the last URL among the items handed over, github.com when
\* there is none.
LastUrlHost ==
    LET urls == {i \in Handed : items[i].form \in {"str", "dict"}}
    IN  IF urls = {} THEN "github.com"
        ELSE items[CHOOSE i \in urls : \A j \in urls : j <= i].host

\* C29: Digester.github is the host of the last URL source handed to the
\* dispatcher, also when that dispatch failed; the one network helper's
\* endpoint is api_root when given and else the API of that host; every
\* container was fetched through it and a search container's link uses
\* that host.
C29_SingleEndpoint ==
    ReachedBuild =>
       /\ github = LastUrlHost
       /\ prepared =>
             /\ api_root # None => endpoint.url = api_root
             /\ api_root = None =>
                   /\ endpoint.url = "https://api.<host>/graphql"
                   /\ endpoint.host = LastUrlHost
             /\ \A i \in 1..Len(taskResult) :
                   taskResult[i] # NoContainer =>
                      /\ taskResult[i].via = endpoint
                      /\ taskResult[i].container_kind = "search" =>
                            taskResult[i].link_host = LastUrlHost
       /\ ~prepared => endpoint = NoEndpoint

\* A github.com URL, then a search, then a URL of another host: the search
\* is fetched from, and links to, the other host.
C29_Witness ==
    /\ pcDigest = "rendered"
    /\ api_root = None
    /\ Len(items) = 3
    /\ items[1].form = "str" /\ items[1].host = "github.com"
    /\ items[2].form = "search"
    /\ items[3].host = "ghe.example"
    /\ endpoint.host = "ghe.example"
    /\ rendered[1].via.host = "ghe.example"
    /\ rendered[2].link_host = "ghe.example"

=============================================================================
